---- MODULE Spec2Model ----
(***************************************************************************)
(* Model of the harassment-content pipeline: the Normalizer                *)
(* (TextPreprocessor), the Enricher (NLPProcessor), the Publisher          *)
(* (ElasticsearchIndexer) and the orchestrator main() that runs them in    *)
(* sequence over the MongoDB collections posts -> preprocessed_posts ->    *)
(* enriched_posts and the Elasticsearch index.                             *)
(*                                                                         *)
(* Texts are sequences of one-character strings, so that the cleaning      *)
(* transform is computed character by character as the regular             *)
(* expressions of preprocessing.py compute it.  A document is a function   *)
(* from field names to values whose DOMAIN is the set of fields present.   *)
(* A collection is the sequence of its documents in scan order.            *)
(***************************************************************************)
EXTENDS Integers, Sequences, FiniteSets, TLC

(***************************************************************************)
(* Bounds of the model.                                                    *)
(***************************************************************************)
MaxDocs == 3        \* largest raw collection explored
MaxRuns == 2        \* pipeline runs per behaviour
MaxFaults == 2      \* injected faults per behaviour
BatchSize == 2      \* bulk batch size; stands for the 500 of es_ingest.py
MaxScrapes == 3     \* scrape calls per behaviour

(***************************************************************************)
(* Characters.                                                             *)
(***************************************************************************)
UpperChars == <<"A","B","C","D","E","F","G","H","I","J","K","L","M",
                "N","O","P","Q","R","S","T","U","V","W","X","Y","Z">>
LowerChars == <<"a","b","c","d","e","f","g","h","i","j","k","l","m",
                "n","o","p","q","r","s","t","u","v","w","x","y","z">>
Range(s) == {s[i] : i \in DOMAIN s}
Letters == Range(UpperChars) \cup Range(LowerChars)
Whitespace == {" ", "\t", "\n", "\r", "\f"}

Min(a, b) == IF a < b THEN a ELSE b

\* str.lower() on one character
LowerOf(c) ==
    IF \E i \in DOMAIN UpperChars : UpperChars[i] = c
    THEN LowerChars[CHOOSE i \in DOMAIN UpperChars : UpperChars[i] = c]
    ELSE c

\* text.lower()
lower(text) == [i \in 1..Len(text) |-> LowerOf(text[i])]

\* TRUE iff the characters of word occur in text starting at position i
StartsAt(text, i, word) ==
    /\ i + Len(word) - 1 <= Len(text)
    /\ \A k \in 1..Len(word) : text[i + k - 1] = word[k]

\* End of the maximal run of non-whitespace characters starting at i (\S+);
\* i - 1 when text[i] is whitespace or past the end.
RECURSIVE NonSpaceRunEnd(_, _)
NonSpaceRunEnd(text, i) ==
    IF i > Len(text) \/ text[i] \in Whitespace THEN i - 1
    ELSE NonSpaceRunEnd(text, i + 1)

\* re.sub(r'<.*?>', '', text): leftmost, non-greedy, '.' excludes newline
RECURSIVE RemoveHtmlFrom(_, _)
RemoveHtmlFrom(text, i) ==
    IF i > Len(text) THEN <<>>
    ELSE IF /\ text[i] = "<"
            /\ \E j \in (i + 1)..Len(text) :
                  /\ text[j] = ">"
                  /\ \A k \in (i + 1)..(j - 1) : text[k] # "\n"
         THEN LET close == CHOOSE j \in (i + 1)..Len(text) :
                              /\ text[j] = ">"
                              /\ \A k \in (i + 1)..(j - 1) : text[k] # ">"
              IN RemoveHtmlFrom(text, close + 1)
         ELSE <<text[i]>> \o RemoveHtmlFrom(text, i + 1)

remove_html(text) == RemoveHtmlFrom(text, 1)

\* Length of the match of http\S+|www\S+|https\S+ at position i, 0 if none
UrlMatchLen(text, i) ==
    LET http == <<"h","t","t","p">>
        www == <<"w","w","w">>
        https == <<"h","t","t","p","s">>
        alt(word) == /\ StartsAt(text, i, word)
                     /\ NonSpaceRunEnd(text, i + Len(word)) >= i + Len(word)
    IN IF alt(http) THEN NonSpaceRunEnd(text, i + 4) - i + 1
       ELSE IF alt(www) THEN NonSpaceRunEnd(text, i + 3) - i + 1
       ELSE IF alt(https) THEN NonSpaceRunEnd(text, i + 5) - i + 1
       ELSE 0

\* re.sub(r'http\S+|www\S+|https\S+', '', text)
RECURSIVE RemoveUrlsFrom(_, _)
RemoveUrlsFrom(text, i) ==
    IF i > Len(text) THEN <<>>
    ELSE LET n == UrlMatchLen(text, i)
         IN IF n > 0 THEN RemoveUrlsFrom(text, i + n)
            ELSE <<text[i]>> \o RemoveUrlsFrom(text, i + 1)

\* Mutant of remove_urls: the step is left out
remove_urls_skipped(text) == text

remove_urls(text) == RemoveUrlsFrom(text, 1)

\* re.sub(r'[^a-zA-Z\s]', '', text)
KeepChar(c) == c \in Letters \cup Whitespace
remove_special_chars(text) == SelectSeq(text, KeepChar)

\* text.split(): maximal runs of non-whitespace characters, in order
RECURSIVE SplitFrom(_, _)
SplitFrom(text, i) ==
    IF i > Len(text) THEN <<>>
    ELSE IF text[i] \in Whitespace THEN SplitFrom(text, i + 1)
    ELSE LET e == NonSpaceRunEnd(text, i)
         IN <<SubSeq(text, i, e)>> \o SplitFrom(text, e + 1)

split(text) == SplitFrom(text, 1)

\* ' '.join(tokens)
RECURSIVE join(_)
join(tokens) ==
    IF tokens = <<>> THEN <<>>
    ELSE IF Len(tokens) = 1 THEN tokens[1]
    ELSE tokens[1] \o <<" ">> \o join(Tail(tokens))

\* A sample of the English and French stop words of the NLTK corpus
stop_words ==
    { <<"i">>, <<"a">>, <<"a","m">>, <<"i","s">>, <<"t","o">>,
      <<"t","h","e">>, <<"a","n","d">>, <<"t","h","i","s">>,
      <<"w","i","t","h">>, <<"l","e","s">>, <<"u","n","e">>,
      <<"d","e","s">>, <<"a","v","e","c">> }

\* WordNetLemmatizer.lemmatize(token): noun lemmas of the words that occur
LemmaRules ==
    { << <<"s","t","o","r","e","s">>, <<"s","t","o","r","e">> >>,
      << <<"d","a","y","s">>, <<"d","a","y">> >> }

lemmatize(token) ==
    IF \E r \in LemmaRules : r[1] = token
    THEN (CHOOSE r \in LemmaRules : r[1] = token)[2]
    ELSE token

KeepToken(token) == token \notin stop_words /\ Len(token) > 2

\* Mutant of lemmatize_with: the lemmatizer is not called
lemmatize_with_none(rules, token) == token

\* self.lemmatizer.lemmatize(token) of a lemmatizer whose lemmas are rules
lemmatize_with(rules, token) ==
    IF \E r \in rules : r[1] = token
    THEN (CHOOSE r \in rules : r[1] = token)[2]
    ELSE token

\* The condition of the comprehension of preprocess_text in an instance
\* whose stop_words attribute is stops
keep_token(stops, token) == token \notin stops /\ Len(token) > 2

\* TextPreprocessor.preprocess_text on a str argument
preprocess_text(text) ==
    IF text = <<>> THEN <<>>
    ELSE LET cleaned == remove_special_chars(remove_urls(remove_html(lower(text))))
             tokens == split(cleaned)
             kept == SelectSeq(tokens, KeepToken)
             clean_tokens == [i \in 1..Len(kept) |-> lemmatize(kept[i])]
         IN join(clean_tokens)

(***************************************************************************)
(* Documents and collections.                                              *)
(***************************************************************************)
None == "None"

\* dict.get(key, default)
Get(doc, key, default) == IF key \in DOMAIN doc THEN doc[key] ELSE default

\* {**old, **fields}: the fields of old overwritten by those given
Merge(old, fields) ==
    [k \in DOMAIN old \cup DOMAIN fields |->
        IF k \in DOMAIN fields THEN fields[k] ELSE old[k]]

\* Positions of the documents of coll matching the filter {"url": url}
Matches(coll, url) ==
    {i \in DOMAIN coll : "url" \in DOMAIN coll[i] /\ coll[i].url = url}

FirstMatch(coll, url) ==
    CHOOSE i \in Matches(coll, url) : \A j \in Matches(coll, url) : i <= j

\* Mutant of update_one: the document is inserted without the keyed lookup
insert_always(coll, url, doc) == Append(coll, Merge([url |-> url], doc))

\* Mutant of update_one: upsert=True is left out, so that nothing is written
\* without a match
update_one_no_upsert(coll, url, doc) ==
    IF Matches(coll, url) # {}
    THEN [coll EXCEPT ![FirstMatch(coll, url)] = Merge(@, doc)]
    ELSE coll

\* collection.update_one({"url": url}, {"$set": doc}, upsert=True):
\* the first matching document has the fields of doc set; without a match a
\* document made of the filter and of doc is inserted.
update_one(coll, url, doc) ==
    IF Matches(coll, url) # {}
    THEN [coll EXCEPT ![FirstMatch(coll, url)] = Merge(@, doc)]
    ELSE Append(coll, Merge([url |-> url], doc))

\* result.upserted_id is set iff the write inserted a document
upserted(coll, url) == Matches(coll, url) = {}

Urls(coll) == {coll[i].url : i \in DOMAIN coll}
Count(coll) == Len(coll)

(***************************************************************************)
(* The raw posts explored: Init takes any sub-collection of RawPool of at  *)
(* most MaxDocs documents, in the order of the pool.                       *)
(***************************************************************************)
TextTitle == <<"T","e","s","t"," ","<","b",">","H","T","M","L","<","/","b",">">>
TextBad == <<"B","a","d"," ","h","t","t","p",":","/","/","x",".","c","o"," ",
             "s","t","u","f","f","!","!">>
TextGood == <<"G","o","o","d"," ","d","a","y","s"," ","t","o"," ","U">>
TextHi == <<"H","i">>

RawPool ==
    << [title |-> TextTitle, content |-> TextBad, author |-> "alice",
        date |-> "d1", url |-> "u1"],
       [title |-> TextHi, content |-> TextGood, url |-> "u2"],
       [content |-> TextBad, author |-> "bob", date |-> "d3"],
       [title |-> TextTitle, content |-> TextHi, author |-> "carol",
        date |-> "d4", url |-> ""] >>

\* The documents of pool at the positions of keep, in pool order
RECURSIVE SubCollection(_, _, _)
SubCollection(pool, keep, i) ==
    IF i > Len(pool) THEN <<>>
    ELSE (IF i \in keep THEN <<pool[i]>> ELSE <<>>)
         \o SubCollection(pool, keep, i + 1)

RawCollections ==
    {SubCollection(RawPool, keep, 1) :
        keep \in {k \in SUBSET DOMAIN RawPool : Cardinality(k) <= MaxDocs}}

(***************************************************************************)
(* The language detector (langdetect.detect) and the sentiment scorer      *)
(* (TextBlob) are external: each is a function of the text, one of those   *)
(* of ServicePool, that a call may also fail to compute.  A polarity is    *)
(* an integer number of 1e-7 units, so 0.1 is 1000000.                     *)
(***************************************************************************)
PositiveThreshold == 1000000     \* polarity > 0.1
NegativeThreshold == -1000000    \* polarity < -0.1
LangPrefix == 1000               \* text[:1000]

CleanBad == preprocess_text(TextBad)
CleanGood == preprocess_text(TextGood)

ServicePool ==
    { [lang |-> {<<CleanBad, "en">>, <<CleanGood, "fr">>},
       polarity |-> {<<CleanBad, NegativeThreshold>>,
                     <<CleanGood, PositiveThreshold + 1>>}],
      [lang |-> {<<CleanBad, "en">>, <<CleanGood, "en">>},
       polarity |-> {<<CleanBad, NegativeThreshold - 1>>,
                     <<CleanGood, PositiveThreshold>>}] }

Lookup(table, key, default) ==
    IF \E e \in table : e[1] = key
    THEN (CHOOSE e \in table : e[1] = key)[2]
    ELSE default

DetectorOutcomes == {"ok", "LangDetectException", "Exception"}
ScorerOutcomes == {"ok", "Exception"}
WriteOutcomes == {"ok", "PyMongoError"}
ScanOutcomes == {"ok", "PyMongoError"}
BulkOutcomes == {"ok", "Exception"}
InitOutcomes == {"ok", "ServerSelectionTimeoutError"}
CollectOutcomes == {"completed", "missing_credentials", "Exception"}
CreateIndexOutcomes == {"ok", "exists_failed", "create_failed"}

StageOrder == <<"collect", "normalize", "enrich", "publish">>
Stages == Range(StageOrder)

VARIABLES
    raw_posts,            \* collection posts
    preprocessed_posts,   \* collection preprocessed_posts
    enriched_posts,       \* collection enriched_posts
    index_exists,         \* the Elasticsearch index harcelement_posts exists
    index_docs,           \* its documents
    svc,                  \* the detector and scorer functions
    stage,                \* position of main(): idle, a stage, complete
    pc,                   \* position inside the stage
    runs,                 \* pipeline runs started; the clock datetime.now() reads
    faults,               \* faults injected so far
    cur,                  \* position of the cursor or loop of the stage
    processed_docs,       \* TextPreprocessor.process_documents: processed_docs
    inserted_count,       \* save_to_mongodb: inserted_count
    skipped_count,        \* save_to_mongodb: skipped_count
    processed_count,      \* NLPProcessor.process_documents: processed_count
    actions,              \* index_documents: actions
    attempts,             \* history: update_one calls of this stage instance
    failed,               \* history: positions whose update_one call raised,
                          \*   numbers of the batches whose bulk call failed
    clean,                \* history: no fault in this stage instance so far
    started,              \* history: stages invoked in this run, in order
    returned,             \* history: stages of this run whose wrapper returned
    result,               \* history: value each wrapper returned in this run
    caught,               \* history: stages of this run whose wrapper caught
                          \*   a fault
    completions,          \* history: completion log lines written
    preSnap,              \* history: <<posts, preprocessed_posts>> at the end
                          \*   of the last fault-free Normalizer run, or <<>>
    enrSnap,              \* history: <<preprocessed_posts, enriched_posts>> at
                          \*   the end of the last fault-free Enricher run
    call,                 \* history: service calls of the last Enricher step
    atStart,              \* history: <<preprocessed_posts, enriched_posts>>
                          \*   when the current run of main() started
    aborted,              \* history: stages of which some earlier run was
                          \*   aborted, by a caught fault or by a crash
    indexes,              \* unique indexes of the collection posts
    scraper,              \* the scrape call in progress, its cursor and list
    scrapes,              \* scrape calls started; the clock scraped_at reads
    collected,            \* history: the list the last scrape call returned
    tp,                   \* a preprocess_text call in progress, step by step
    conns,                \* MongoClient objects each stage of this run has
                          \*   created and closed
    batches,              \* history: the batches the Publisher instance has
                          \*   handed to _bulk_index, in order
    conc                  \* two stage instances running at the same time

db == <<raw_posts, preprocessed_posts, enriched_posts, index_exists, index_docs>>
locals == <<cur, processed_docs, inserted_count, skipped_count, processed_count,
            actions, attempts, failed, clean>>
vars == <<raw_posts, preprocessed_posts, enriched_posts, index_exists,
          index_docs, svc, stage, pc, runs, faults, cur, processed_docs,
          inserted_count, skipped_count, processed_count, actions, attempts,
          failed, clean, started, returned, result, caught, completions,
          preSnap, enrSnap, call, atStart, aborted, indexes, scraper,
          scrapes, collected, tp, conns, batches, conc>>

\* The state of the Collectors
collector == <<indexes, scraper, scrapes, collected>>
\* What no stage of the pipeline writes
outside == <<svc, atStart, aborted, indexes, scraper, scrapes, collected, tp,
             conc>>
\* What a step inside a stage leaves alone
env == <<outside, conns, batches>>

NoCall == [stage |-> "none"]
NoScraper == [who |-> "none"]
NoText == [pc |-> "none"]
NoConc == [kind |-> "none"]
\* No stage of the run has created a MongoClient
NoConns ==
    [s \in {"normalize", "enrich", "publish"} |->
        [opened |-> 0, closed |-> 0]]
NoResult == [collect |-> "none", normalize |-> -1, inserted |-> -1,
             enrich |-> -1, publish |-> "none"]

\* What the try/except of main() around run_scraper() leaves: nothing is
\* returned, the phase is logged as completed or as failed
CollectResult(o) == IF o = "Exception" THEN "failed" ELSE "completed"

\* datetime.now()
Now == runs

\* No process has started: what is not the content of the stores
InitProcess ==
    /\ svc \in ServicePool
    /\ stage = "idle"
    /\ pc = "init"
    /\ runs = 0
    /\ faults = 0
    /\ cur = 1
    /\ processed_docs = <<>>
    /\ inserted_count = 0
    /\ skipped_count = 0
    /\ processed_count = 0
    /\ actions = <<>>
    /\ attempts = 0
    /\ failed = {}
    /\ clean = TRUE
    /\ started = <<>>
    /\ returned = {}
    /\ result = NoResult
    /\ caught = {}
    /\ completions = 0
    /\ preSnap = <<>>
    /\ enrSnap = <<>>
    /\ call = NoCall
    /\ atStart = <<>>
    /\ aborted = {}
    /\ indexes = {}
    /\ scraper = NoScraper
    /\ scrapes = 0
    /\ collected = NoScraper
    /\ tp = NoText
    /\ conns = NoConns
    /\ batches = <<>>
    /\ conc = NoConc

Init ==
    /\ raw_posts \in RawCollections
    /\ preprocessed_posts = <<>>
    /\ enriched_posts = <<>>
    /\ index_exists = FALSE
    /\ index_docs = <<>>
    /\ InitProcess

ResetLocals ==
    /\ cur' = 1
    /\ processed_docs' = <<>>
    /\ inserted_count' = 0
    /\ skipped_count' = 0
    /\ processed_count' = 0
    /\ actions' = <<>>
    /\ attempts' = 0
    /\ failed' = {}
    /\ clean' = TRUE

\* pymongo.MongoClient(uri) in the constructor of the instance of stage s
MongoClient(c, s) == [c EXCEPT ![s].opened = @ + 1]

\* close() of the instance of stage s: self.mongo_client.close()
close(c, s) == [c EXCEPT ![s].closed = @ + 1]

(***************************************************************************)
(* main(): the four stages in sequence.                                    *)
(***************************************************************************)
\* Mutant of NextStage: the Enricher is called before the Normalizer
NextStageEnrichFirst(s) ==
    IF s = "collect" THEN "enrich"
    ELSE IF s = "enrich" THEN "normalize"
    ELSE IF s = "normalize" THEN "publish"
    ELSE "complete"

\* The statement of main() that follows stage s
NextStage(s) ==
    IF s = "collect" THEN "normalize"
    ELSE IF s = "normalize" THEN "enrich"
    ELSE IF s = "enrich" THEN "publish"
    ELSE "complete"

\* Control returns from the wrapper of stage s to main(), which goes on to
\* its next statement
StageEnd(s) ==
    /\ stage' = NextStage(s)
    /\ pc' = "init"
    /\ returned' = returned \cup {s}
    /\ ResetLocals

\* A stage wrapper returns res from its try block
StageReturn(s, res) ==
    /\ StageEnd(s)
    /\ result' = [result EXCEPT ![s] = res]
    /\ UNCHANGED caught

\* Mutant of StageFault: the fault leaves the wrapper and ends main()
StageFaultPropagates(s, res) ==
    /\ stage' = "idle"
    /\ pc' = "init"
    /\ caught' = caught \cup {s}
    /\ ResetLocals
    /\ UNCHANGED <<returned, result>>

\* The except branch of a stage wrapper: the fault is logged and the wrapper
\* returns its zero/false result
StageFault(s, res) ==
    /\ StageEnd(s)
    /\ result' = [result EXCEPT ![s] = res]
    /\ caught' = caught \cup {s}

\* main() is entered
StartPipeline ==
    /\ stage = "idle"
    /\ runs < MaxRuns
    /\ runs' = runs + 1
    /\ stage' = "collect"
    /\ pc' = "init"
    /\ started' = <<>>
    /\ returned' = {}
    /\ result' = NoResult
    /\ caught' = {}
    /\ call' = NoCall
    /\ atStart' = <<preprocessed_posts, enriched_posts>>
    /\ aborted' = aborted \cup caught
    /\ conns' = NoConns
    /\ UNCHANGED <<db, svc, collector, tp, batches, conc, faults, locals,
                   completions, preSnap, enrSnap>>

\* Step 1 of main(): await run_scraper() inside try/except.  The scrapers of
\* scraper.main() are disabled, so the step writes nothing.
Collect ==
    /\ stage = "collect"
    /\ \E o \in CollectOutcomes :
          /\ o = "Exception" => faults < MaxFaults
          /\ faults' = IF o = "Exception" THEN faults + 1 ELSE faults
          /\ IF o = "Exception"
             THEN StageFault("collect", CollectResult(o))
             ELSE StageReturn("collect", CollectResult(o))
    /\ started' = Append(started, "collect")
    /\ UNCHANGED <<db, env, runs, completions, preSnap, enrSnap, call>>

\* The completion log line of main()
Complete ==
    /\ stage = "complete"
    /\ stage' = "idle"
    /\ completions' = completions + 1
    /\ UNCHANGED <<db, env, pc, runs, faults, locals, started, returned, result,
                   caught, preSnap, enrSnap, call>>

(***************************************************************************)
(* The Normalizer: preprocess_data() of main.py over TextPreprocessor.     *)
(***************************************************************************)
\* Mutant of processed_doc: a missing url is stored as None, not as ""
processed_doc_url_none(doc) ==
    [title |-> preprocess_text(Get(doc, "title", <<>>)),
     content |-> preprocess_text(Get(doc, "content", <<>>)),
     author |-> Get(doc, "author", "unknown"),
     date |-> Get(doc, "date", None),
     url |-> Get(doc, "url", None)]

\* Mutant of processed_doc: a missing author is stored as ""
processed_doc_author_empty(doc) ==
    [title |-> preprocess_text(Get(doc, "title", <<>>)),
     content |-> preprocess_text(Get(doc, "content", <<>>)),
     author |-> Get(doc, "author", ""),
     date |-> Get(doc, "date", None),
     url |-> Get(doc, "url", "")]

\* The processed_doc that the loop of process_documents builds from doc
processed_doc(doc) ==
    [title |-> preprocess_text(Get(doc, "title", <<>>)),
     content |-> preprocess_text(Get(doc, "content", <<>>)),
     author |-> Get(doc, "author", "unknown"),
     date |-> Get(doc, "date", None),
     url |-> Get(doc, "url", "")]

\* preprocess_data(): TextPreprocessor(MONGO_URI), which creates the unique
\* index; an unreachable store raises and the wrapper returns 0
NormInit ==
    /\ stage = "normalize" /\ pc = "init"
    /\ started' = Append(started, "normalize")
    /\ \E o \in InitOutcomes :
          IF o = "ok"
          THEN /\ pc' = "scan"
               /\ UNCHANGED <<stage, faults, returned, result, caught, locals>>
          ELSE /\ faults < MaxFaults
               /\ faults' = faults + 1
               /\ StageFault("normalize", 0)
    /\ conns' = MongoClient(conns, "normalize")
    /\ UNCHANGED <<db, outside, batches, runs, completions, preSnap, enrSnap,
                   call>>

\* One iteration of the loop of process_documents over collection.find()
NormScan ==
    /\ stage = "normalize" /\ pc = "scan"
    /\ cur <= Len(raw_posts)
    /\ \E o \in ScanOutcomes :
          IF o = "ok"
          THEN /\ processed_docs' =
                      Append(processed_docs, processed_doc(raw_posts[cur]))
               /\ cur' = cur + 1
               /\ UNCHANGED <<stage, pc, faults, returned, result, caught,
                              inserted_count, skipped_count, processed_count,
                              actions, attempts, failed, clean>>
          ELSE /\ faults < MaxFaults
               /\ faults' = faults + 1
               /\ StageFault("normalize", 0)
    /\ UNCHANGED <<db, env, runs, started, completions, preSnap, enrSnap,
                   call>>

\* Mutant of NormScanEnd: save_to_mongodb is entered once a document has
\* been transformed, the rest of the collection unread
NormScanEndEarly ==
    /\ stage = "normalize" /\ pc = "scan"
    /\ cur > 1 \/ cur > Len(raw_posts)
    /\ pc' = "save"
    /\ cur' = 1
    /\ UNCHANGED <<db, env, stage, runs, faults, processed_docs,
                   inserted_count, skipped_count, processed_count, actions,
                   attempts, failed, clean, call, started, returned, result,
                   caught, completions, preSnap, enrSnap>>

\* process_documents returns and save_to_mongodb is entered
NormScanEnd ==
    /\ stage = "normalize" /\ pc = "scan"
    /\ cur > Len(raw_posts)
    /\ pc' = "save"
    /\ cur' = 1
    /\ UNCHANGED <<db, env, stage, runs, faults, processed_docs,
                   inserted_count, skipped_count, processed_count, actions,
                   attempts, failed, clean, call, started, returned, result,
                   caught, completions, preSnap, enrSnap>>

\* Mutant of AfterWriteError: the error of a write ends the loop
AfterWriteErrorStops(i, n) == n + 1

\* Where a write loop goes on after its except branch has logged the error
\* of the write at position i of n: at the next document
AfterWriteError(i, n) == i + 1

\* Mutant of SaveCounters: every write that did not raise counts as inserted
SaveCountersAlwaysInserted(wasUpserted) ==
    /\ inserted_count' = inserted_count + 1
    /\ skipped_count' = skipped_count

\* The counters of save_to_mongodb after a write that did not raise
SaveCounters(wasUpserted) ==
    /\ inserted_count' = IF wasUpserted THEN inserted_count + 1
                         ELSE inserted_count
    /\ skipped_count' = IF wasUpserted THEN skipped_count
                        ELSE skipped_count + 1

\* Mutant of SaveWrite: insert_one in place of the keyed upsert
SaveWriteInsert(coll, doc) == Append(coll, doc)

\* The write of save_to_mongodb for doc
SaveWrite(coll, doc) == update_one(coll, doc.url, doc)

\* One iteration of the loop of save_to_mongodb
NormSave ==
    /\ stage = "normalize" /\ pc = "save"
    /\ cur <= Len(processed_docs)
    /\ \E o \in WriteOutcomes :
          LET doc == processed_docs[cur]
          IN IF o = "ok"
             THEN /\ preprocessed_posts' = SaveWrite(preprocessed_posts, doc)
                  /\ SaveCounters(upserted(preprocessed_posts, doc.url))
                  /\ cur' = cur + 1
                  /\ UNCHANGED <<faults, failed, clean>>
             ELSE /\ faults < MaxFaults
                  /\ faults' = faults + 1
                  /\ failed' = failed \cup {cur}
                  /\ clean' = FALSE
                  /\ cur' = AfterWriteError(cur, Len(processed_docs))
                  /\ UNCHANGED <<preprocessed_posts, inserted_count,
                                 skipped_count>>
    /\ attempts' = attempts + 1
    /\ UNCHANGED <<raw_posts, enriched_posts, index_exists, index_docs, env,
                   stage, pc, runs, processed_docs, processed_count, actions,
                   call, started, returned, result, caught, completions,
                   preSnap, enrSnap>>

\* The value save_to_mongodb returns
save_to_mongodb_result == IF processed_docs = <<>> THEN 0 ELSE inserted_count

\* save_to_mongodb returns; preprocess_data logs, closes the connection and
\* returns len(processed_docs)
NormReturn ==
    /\ stage = "normalize" /\ pc = "save"
    /\ cur > Len(processed_docs)
    /\ StageEnd("normalize")
    /\ result' = [result EXCEPT !.normalize = Len(processed_docs),
                                !.inserted = save_to_mongodb_result]
    /\ UNCHANGED caught
    /\ preSnap' = IF clean THEN <<raw_posts, preprocessed_posts>> ELSE <<>>
    /\ conns' = close(conns, "normalize")
    /\ UNCHANGED <<db, outside, batches, runs, faults, started, completions,
                   enrSnap, call>>

(***************************************************************************)
(* The Enricher: process_nlp() of main.py over NLPProcessor.               *)
(***************************************************************************)
\* NLPProcessor.detect_language(text) when the detector, if called, ends as
\* det.  raised: the exception that leaves the method, or "none".
detect_language(text, det) ==
    IF text = <<>> \/ Len(text) < 3
    THEN [value |-> "unknown", raised |-> "none", invoked |-> FALSE,
          arg |-> <<>>]
    ELSE LET arg == SubSeq(text, 1, Min(Len(text), LangPrefix))
         IN IF det = "ok"
            THEN [value |-> Lookup(svc.lang, arg, "en"), raised |-> "none",
                  invoked |-> TRUE, arg |-> arg]
            ELSE IF det = "LangDetectException"
            THEN [value |-> "unknown", raised |-> "none", invoked |-> TRUE,
                  arg |-> arg]
            ELSE [value |-> "unknown", raised |-> det, invoked |-> TRUE,
                  arg |-> arg]

\* Mutant of sentiment_of: the thresholds themselves count as beyond them
sentiment_of_inclusive(polarity) ==
    IF polarity >= PositiveThreshold THEN "positive"
    ELSE IF polarity <= NegativeThreshold THEN "negative"
    ELSE "neutral"

\* The sentiment category of a polarity
sentiment_of(polarity) ==
    IF polarity > PositiveThreshold THEN "positive"
    ELSE IF polarity < NegativeThreshold THEN "negative"
    ELSE "neutral"

\* NLPProcessor.analyze_sentiment(text, language) when the scorer, if called,
\* ends as sco
analyze_sentiment(text, language, sco) ==
    IF text = <<>>
    THEN [polarity |-> 0, sentiment |-> "neutral", raised |-> "none",
          scored |-> FALSE]
    ELSE IF sco = "ok"
    THEN LET polarity == Lookup(svc.polarity, text, 0)
         IN [polarity |-> polarity, sentiment |-> sentiment_of(polarity),
             raised |-> "none", scored |-> TRUE]
    ELSE [polarity |-> 0, sentiment |-> "neutral", raised |-> sco,
          scored |-> TRUE]

\* Mutant of enriched_doc: the url is not carried forward
enriched_doc_url_empty(doc, language, sentiment_result) ==
    [title |-> Get(doc, "title", <<>>),
     content |-> Get(doc, "content", <<>>),
     author |-> Get(doc, "author", "unknown"),
     date |-> Get(doc, "date", None),
     url |-> "",
     language |-> language,
     sentiment |-> sentiment_result.sentiment,
     polarity |-> sentiment_result.polarity,
     enriched_at |-> Now]

\* Mutant of enriched_doc: the author is not carried forward
enriched_doc_author_unknown(doc, language, sentiment_result) ==
    [title |-> Get(doc, "title", <<>>),
     content |-> Get(doc, "content", <<>>),
     author |-> "unknown",
     date |-> Get(doc, "date", None),
     url |-> Get(doc, "url", ""),
     language |-> language,
     sentiment |-> sentiment_result.sentiment,
     polarity |-> sentiment_result.polarity,
     enriched_at |-> Now]

\* The enriched_doc that the loop of process_documents builds
enriched_doc(doc, language, sentiment_result) ==
    [title |-> Get(doc, "title", <<>>),
     content |-> Get(doc, "content", <<>>),
     author |-> Get(doc, "author", "unknown"),
     date |-> Get(doc, "date", None),
     url |-> Get(doc, "url", ""),
     language |-> language,
     sentiment |-> sentiment_result.sentiment,
     polarity |-> sentiment_result.polarity,
     enriched_at |-> Now]

\* Mutant of EnrichWrite: insert_one in place of the keyed upsert
EnrichWriteInsert(coll, doc, enriched) == Append(coll, enriched)

\* The write of process_documents for the document doc read
EnrichWrite(coll, doc, enriched) == update_one(coll, doc.url, enriched)

\* process_nlp(): NLPProcessor(MONGO_URI), which creates the unique index
EnrInit ==
    /\ stage = "enrich" /\ pc = "init"
    /\ started' = Append(started, "enrich")
    /\ \E o \in InitOutcomes :
          IF o = "ok"
          THEN /\ pc' = "loop"
               /\ UNCHANGED <<stage, faults, returned, result, caught, locals>>
          ELSE /\ faults < MaxFaults
               /\ faults' = faults + 1
               /\ StageFault("enrich", 0)
    /\ call' = NoCall
    /\ conns' = MongoClient(conns, "enrich")
    /\ UNCHANGED <<db, outside, batches, runs, completions, preSnap, enrSnap>>

\* One iteration of the loop of process_documents: detect_language,
\* analyze_sentiment, then update_one inside try/except.  A fault that
\* leaves detect_language or analyze_sentiment leaves the loop and
\* process_documents, and is caught by process_nlp.
EnrDoc ==
    /\ stage = "enrich" /\ pc = "loop"
    /\ cur <= Len(preprocessed_posts)
    /\ \E det \in DetectorOutcomes, sco \in ScorerOutcomes, w \in WriteOutcomes :
          LET doc == preprocessed_posts[cur]
              content == Get(doc, "content", <<>>)
              d == detect_language(content, det)
              s == analyze_sentiment(content, d.value, sco)
              escaped == d.raised # "none" \/ s.raised # "none"
              used == (IF det # "ok" THEN 1 ELSE 0)
                      + (IF sco # "ok" THEN 1 ELSE 0)
                      + (IF w # "ok" THEN 1 ELSE 0)
              next == IF escaped THEN 0
                      ELSE IF w = "ok" THEN cur + 1
                      ELSE AfterWriteError(cur, Len(preprocessed_posts))
              thisCall == [stage |-> "enrich", pos |-> cur, url |-> doc.url,
                           escaped |-> escaped, next |-> next,
                           content |-> content, det |-> det,
                           invoked |-> d.invoked, arg |-> d.arg,
                           language |-> d.value, detRaised |-> d.raised,
                           sco |-> IF d.raised # "none" THEN "skipped" ELSE sco,
                           scored |-> d.raised = "none" /\ s.scored,
                           polarity |-> IF d.raised # "none" THEN 0
                                        ELSE s.polarity,
                           sentiment |-> IF d.raised # "none" THEN "none"
                                         ELSE s.sentiment,
                           scoRaised |-> IF d.raised # "none" THEN "none"
                                         ELSE s.raised,
                           written |-> ~escaped /\ w = "ok"]
          IN \* an outcome is chosen only for a call that is made
             /\ det # "ok" => d.invoked
             /\ sco # "ok" => d.raised = "none" /\ s.scored
             /\ w # "ok" => ~escaped
             /\ faults + used <= MaxFaults
             /\ faults' = faults + used
             /\ call' = thisCall
             /\ IF escaped
                THEN /\ StageFault("enrich", 0)
                     /\ UNCHANGED enriched_posts
                ELSE /\ IF w = "ok"
                        THEN /\ enriched_posts' =
                                   EnrichWrite(enriched_posts, doc,
                                       enriched_doc(doc, d.value, s))
                             /\ processed_count' = processed_count + 1
                             /\ UNCHANGED failed
                        ELSE /\ failed' = failed \cup {cur}
                             /\ UNCHANGED <<enriched_posts, processed_count>>
                     /\ cur' = next
                     /\ clean' = (clean /\ used = 0)
                     /\ attempts' = attempts + 1
                     /\ UNCHANGED <<stage, pc, returned, result, caught,
                                    processed_docs, inserted_count,
                                    skipped_count, actions>>
    /\ UNCHANGED <<raw_posts, preprocessed_posts, index_exists, index_docs,
                   env, runs, started, completions, preSnap, enrSnap>>

\* The cursor of preprocessed_collection.find() raises in the loop: the
\* fault leaves process_documents and is caught by process_nlp
EnrCursorFault ==
    /\ stage = "enrich" /\ pc = "loop"
    /\ cur <= Len(preprocessed_posts)
    /\ faults < MaxFaults
    /\ faults' = faults + 1
    /\ StageFault("enrich", 0)
    /\ call' = NoCall
    /\ UNCHANGED <<db, env, runs, started, completions, preSnap, enrSnap>>

\* process_documents returns processed_count; process_nlp logs, closes the
\* connection and returns it
EnrReturn ==
    /\ stage = "enrich" /\ pc = "loop"
    /\ cur > Len(preprocessed_posts)
    /\ StageReturn("enrich", processed_count)
    /\ enrSnap' = IF clean THEN <<preprocessed_posts, enriched_posts>>
                  ELSE <<>>
    /\ conns' = close(conns, "enrich")
    /\ UNCHANGED <<db, outside, batches, runs, faults, started, completions,
                   preSnap, call>>

(***************************************************************************)
(* The Publisher: migrate_to_elasticsearch() of main.py over               *)
(* ElasticsearchIndexer.                                                   *)
(***************************************************************************)
\* Mutant of transform_document: the score is read from a field the enriched
\* documents do not have
transform_document_score_key(doc) ==
    [titre |-> Get(doc, "title", <<>>),
     contenu |-> Get(doc, "content", <<>>),
     auteur |-> Get(doc, "author", "unknown"),
     date |-> Get(doc, "date", Now),
     url |-> Get(doc, "url", ""),
     langue |-> Get(doc, "language", "unknown"),
     sentiment |-> Get(doc, "sentiment", "neutral"),
     score |-> Get(doc, "score", 0),
     indexed_at |-> Now]

\* ElasticsearchIndexer.transform_document(doc)
transform_document(doc) ==
    [titre |-> Get(doc, "title", <<>>),
     contenu |-> Get(doc, "content", <<>>),
     auteur |-> Get(doc, "author", "unknown"),
     date |-> Get(doc, "date", Now),
     url |-> Get(doc, "url", ""),
     langue |-> Get(doc, "language", "unknown"),
     sentiment |-> Get(doc, "sentiment", "neutral"),
     score |-> Get(doc, "polarity", 0),
     indexed_at |-> Now]

\* Mutant of bulk_index: a batch whose bulk call failed is submitted again
bulk_index_retried(docs, batch, o) == docs \o batch

\* The index after _bulk_index(batch) when helpers.bulk ends as o: a failure
\* is logged and not raised
bulk_index(docs, batch, o) == IF o = "ok" THEN docs \o batch ELSE docs

\* migrate_to_elasticsearch(): ElasticsearchIndexer(...)
PubInit ==
    /\ stage = "publish" /\ pc = "init"
    /\ started' = Append(started, "publish")
    /\ \E o \in InitOutcomes :
          IF o = "ok"
          THEN /\ pc' = "create_index"
               /\ UNCHANGED <<stage, faults, returned, result, caught, locals>>
          ELSE /\ faults < MaxFaults
               /\ faults' = faults + 1
               /\ StageFault("publish", "False")
    /\ call' = NoCall
    /\ conns' = MongoClient(conns, "publish")
    /\ batches' = <<>>
    /\ UNCHANGED <<db, outside, runs, completions, preSnap, enrSnap>>

\* Mutant of recreate: the index is created when missing and never deleted
recreate_keeps(docs) == docs

\* indices.delete(index) when it exists, then indices.create(index): the
\* documents of the index after create_index()
recreate(docs) == <<>>

\* create_index(): indices.exists, indices.delete when it exists, then
\* indices.create; a fault of any of the calls is caught by the wrapper
PubCreateIndex ==
    /\ stage = "publish" /\ pc = "create_index"
    /\ \E o \in CreateIndexOutcomes :
          IF o = "ok"
          THEN /\ index_exists' = TRUE
               /\ index_docs' = recreate(index_docs)
               /\ pc' = "loop"
               /\ UNCHANGED <<stage, faults, returned, result, caught, locals>>
          ELSE /\ faults < MaxFaults
               /\ faults' = faults + 1
               /\ IF o = "exists_failed"
                  THEN UNCHANGED <<index_exists, index_docs>>
                  ELSE index_exists' = FALSE /\ index_docs' = <<>>
               /\ StageFault("publish", "False")
    /\ UNCHANGED <<raw_posts, preprocessed_posts, enriched_posts, env, runs,
                   started, completions, preSnap, enrSnap, call>>

\* Mutant of BatchFull: no batch is handed over inside the loop
BatchFullNever(batch) == FALSE

\* Mutant of BatchFull: the batch is handed over one document late
BatchFullLate(batch) == Len(batch) > BatchSize

\* len(actions) >= 500: the batch is handed to _bulk_index
BatchFull(batch) == Len(batch) >= BatchSize

\* One iteration of the loop of index_documents over collection.find(): the
\* document is transformed and appended to actions; a full batch is handed
\* to _bulk_index and actions is emptied
PubDoc ==
    /\ stage = "publish" /\ pc = "loop"
    /\ cur <= Len(enriched_posts)
    /\ LET batch == Append(actions, transform_document(enriched_posts[cur]))
       IN IF BatchFull(batch)
          THEN \E o \in BulkOutcomes :
                  /\ o # "ok" => faults < MaxFaults
                  /\ faults' = IF o = "ok" THEN faults ELSE faults + 1
                  /\ clean' = (clean /\ o = "ok")
                  /\ index_docs' = bulk_index(index_docs, batch, o)
                  /\ attempts' = attempts + 1
                  /\ failed' = IF o = "ok" THEN failed
                               ELSE failed \cup {attempts + 1}
                  /\ actions' = <<>>
                  /\ batches' = Append(batches, batch)
          ELSE /\ actions' = batch
               /\ UNCHANGED <<faults, clean, index_docs, attempts, failed,
                              batches>>
    /\ cur' = cur + 1
    /\ UNCHANGED <<raw_posts, preprocessed_posts, enriched_posts, index_exists,
                   outside, conns, stage, pc, runs, processed_docs, inserted_count,
                   skipped_count, processed_count, started, returned,
                   result, caught, completions, preSnap, enrSnap, call>>

\* The cursor of collection.find() raises in the loop: the fault leaves
\* index_documents and is caught by migrate_to_elasticsearch
PubCursorFault ==
    /\ stage = "publish" /\ pc = "loop"
    /\ cur <= Len(enriched_posts)
    /\ faults < MaxFaults
    /\ faults' = faults + 1
    /\ StageFault("publish", "False")
    /\ UNCHANGED <<db, env, runs, started, completions, preSnap, enrSnap,
                   call>>

\* The loop of index_documents ends: the remaining actions, if any, are
\* handed to _bulk_index; the wrapper logs, closes and returns True
PubReturn ==
    /\ stage = "publish" /\ pc = "loop"
    /\ cur > Len(enriched_posts)
    /\ IF actions # <<>>
       THEN \E o \in BulkOutcomes :
               /\ o # "ok" => faults < MaxFaults
               /\ faults' = IF o = "ok" THEN faults ELSE faults + 1
               /\ index_docs' = bulk_index(index_docs, actions, o)
               /\ batches' = Append(batches, actions)
       ELSE UNCHANGED <<faults, index_docs, batches>>
    /\ StageReturn("publish", "True")
    /\ conns' = close(conns, "publish")
    /\ UNCHANGED <<raw_posts, preprocessed_posts, enriched_posts, index_exists,
                   outside, runs, started, completions, preSnap, enrSnap, call>>

Next ==
    \/ StartPipeline
    \/ Collect
    \/ NormInit
    \/ NormScan
    \/ NormScanEnd
    \/ NormSave
    \/ NormReturn
    \/ EnrInit
    \/ EnrDoc
    \/ EnrCursorFault
    \/ EnrReturn
    \/ PubInit
    \/ PubCreateIndex
    \/ PubDoc
    \/ PubCursorFault
    \/ PubReturn
    \/ Complete

Spec == Init /\ [][Next]_vars

(***************************************************************************)
(* The Collectors: RedditScraper, TelegramScraper and TwitterScraper, each *)
(* run on its own against the shared collection posts.  A constructor      *)
(* creates the unique index of its platform; a scrape call fetches the     *)
(* items of one subreddit, group or keyword and inserts a post for each.   *)
(***************************************************************************)
Collectors == {"reddit", "telegram", "twitter"}

\* The unique index the constructor of a Collector creates on posts
IndexOf(who) ==
    IF who = "reddit" THEN <<"url">>
    ELSE IF who = "twitter" THEN <<"post_id">>
    ELSE <<"source", "post_id">>

\* The key of doc under the index ix; a missing field is indexed as null
IndexKey(doc, ix) == [i \in DOMAIN ix |-> Get(doc, ix[i], None)]

\* create_index(ix, unique=True) succeeds only on a collection without two
\* documents of one key
IndexBuildable(coll, ix) ==
    \A i, j \in DOMAIN coll :
        IndexKey(coll[i], ix) = IndexKey(coll[j], ix) => i = j

\* insert_one(doc) raises DuplicateKeyError: some unique index of the
\* collection already holds the key of doc
DuplicateKey(coll, ixs, doc) ==
    \E ix \in ixs : \E i \in DOMAIN coll :
        IndexKey(coll[i], ix) = IndexKey(doc, ix)

\* What the source platforms answer: the submissions of a subreddit, the
\* messages of two groups, whose ids are counted per group, and the tweets
\* of a keyword
Feeds ==
    { [who |-> "reddit", name |-> "bullying",
       items |-> << [id |-> "abc", title |-> TextTitle, selftext |-> TextBad,
                     author |-> "alice", created |-> "d1"],
                    [id |-> "abd", title |-> TextHi, selftext |-> <<>>,
                     author |-> None, created |-> "d2"] >>],
      [who |-> "telegram", name |-> "StopBullying",
       items |-> << [id |-> 5, message |-> TextGood, user_id |-> 7,
                     date |-> "d3"],
                    [id |-> 6, message |-> <<>>, user_id |-> 7,
                     date |-> "d4"] >>],
      [who |-> "telegram", name |-> "OnlineSafety",
       items |-> << [id |-> 5, message |-> TextBad, date |-> "d5"] >>],
      [who |-> "twitter", name |-> "#harassment",
       items |-> << [id |-> 9, text |-> TextBad, username |-> "bob",
                     created_at |-> "d6"],
                    [id |-> 10, text |-> TextGood, username |-> "carol",
                     created_at |-> "d7"] >>] }

\* The limit argument of a scrape call: the default, or one post
DefaultLimit == 50
Limits == {1, DefaultLimit}

\* The post a Collector builds from a fetched item
post_of(who, name, item, now) ==
    IF who = "reddit"
    THEN [title |-> item.title, content |-> item.selftext,
          author |-> IF item.author # None THEN item.author ELSE "unknown",
          date |-> item.created,
          url |-> "https://www.reddit.com/r/" \o name \o "/" \o item.id,
          subreddit |-> name, source |-> "reddit", post_id |-> item.id,
          scraped_at |-> now]
    ELSE IF who = "telegram"
    THEN [title |-> <<>>, content |-> item.message,
          author |-> IF "user_id" \in DOMAIN item
                     THEN "user_" \o ToString(item.user_id) ELSE "unknown",
          date |-> item.date,
          url |-> "https://t.me/" \o name \o "/" \o ToString(item.id),
          source |-> "telegram", post_id |-> ToString(item.id),
          group |-> name, scraped_at |-> now]
    ELSE [title |-> <<>>, content |-> item.text, author |-> item.username,
          date |-> item.created_at,
          url |-> "https://twitter.com/" \o item.username \o "/status/"
                    \o ToString(item.id),
          source |-> "twitter", post_id |-> ToString(item.id),
          keyword |-> name, scraped_at |-> now]

\* The items a scrape call iterates over: Reddit and Telegram are asked for
\* at most limit items
fetched(feed, limit) ==
    IF feed.who = "twitter" THEN feed.items
    ELSE SubSeq(feed.items, 1, Min(Len(feed.items), limit))

\* Mutant of insert_one: replace_one with upsert, keyed on the platform
replace_one_by_source(coll, doc) ==
    IF \E i \in DOMAIN coll : coll[i].source = doc.source
    THEN [coll EXCEPT ![CHOOSE i \in DOMAIN coll :
                            coll[i].source = doc.source] = doc]
    ELSE Append(coll, doc)

\* collection.insert_one(doc) when no unique index rejects doc
insert_one(coll, doc) == Append(coll, doc)

\* Mutant of OnDuplicate: the duplicate is listed as if it had been inserted
OnDuplicateListed(posts, post) == Append(posts, post)

\* The list of a scrape call after insert_one raised DuplicateKeyError for
\* post: the branch only logs
OnDuplicate(posts, post) == posts

\* RedditScraper(...), TelegramScraper(...), TwitterScraper(...): the
\* constructor creates the unique index; when the index cannot be built it
\* raises and there is no scraper
ScraperInit ==
    /\ scraper.who = "none"
    /\ scrapes < MaxScrapes
    /\ \E who \in Collectors :
          IF IndexBuildable(raw_posts, IndexOf(who))
          THEN /\ indexes' = indexes \cup {IndexOf(who)}
               /\ scraper' = [who |-> who, pc |-> "ready"]
          ELSE UNCHANGED <<indexes, scraper>>
    /\ UNCHANGED <<db, svc, conns, batches, conc, tp, atStart, aborted,
                   scrapes, collected, stage, pc, runs, faults, locals,
                   started, returned, result, caught, completions, preSnap,
                   enrSnap, call>>

\* scrape_subreddit, scrape_group or scrape_keyword is called: the items are
\* fetched, or the fetch raises and the call returns an empty list
ScrapeStart ==
    /\ scraper.who # "none" /\ scraper.pc = "ready"
    /\ scrapes < MaxScrapes
    /\ scrapes' = scrapes + 1
    /\ \E feed \in {f \in Feeds : f.who = scraper.who}, limit \in Limits,
          o \in {"ok", "Exception"} :
          IF o = "ok"
          THEN /\ scraper' = [who |-> scraper.who, pc |-> "loop",
                              name |-> feed.name, limit |-> limit,
                              items |-> fetched(feed, limit), pos |-> 1,
                              posts |-> <<>>]
               /\ UNCHANGED <<faults, collected>>
          ELSE /\ faults < MaxFaults
               /\ faults' = faults + 1
               /\ collected' = [who |-> scraper.who, name |-> feed.name,
                                posts |-> <<>>, raised |-> FALSE]
               /\ UNCHANGED scraper
    /\ UNCHANGED <<db, svc, conns, batches, conc, tp, atStart, aborted,
                   indexes, stage, pc, runs, locals, started, returned,
                   result, caught, completions, preSnap, enrSnap, call>>

\* The item the loop of the scrape call is at, and the post built from it
CurrentItem == scraper.items[scraper.pos]
CurrentPost == post_of(scraper.who, scraper.name, CurrentItem, scrapes)

\* The loop of the call skips the item: a Telegram message without text
Skipped ==
    scraper.who = "telegram" /\ CurrentItem.message = <<>>

\* Mutant of LimitReached: the tweets seen are counted, not those inserted
LimitReachedBySeen ==
    scraper.who = "twitter" /\ scraper.pos > scraper.limit

\* The loop of scrape_keyword stops: the list has reached the limit
LimitReached ==
    scraper.who = "twitter" /\ Len(scraper.posts) >= scraper.limit

\* One iteration of the loop of a scrape call: the post is built and
\* inserted; DuplicateKeyError and any other error of the insert are caught
\* and logged, and the loop goes on
ScrapePost ==
    /\ scraper.who # "none" /\ scraper.pc = "loop"
    /\ scraper.pos <= Len(scraper.items)
    /\ IF LimitReached
       THEN /\ scraper' = [scraper EXCEPT !.pos = Len(scraper.items) + 1]
            /\ UNCHANGED <<raw_posts, faults>>
       ELSE IF Skipped
       THEN /\ scraper' = [scraper EXCEPT !.pos = @ + 1]
            /\ UNCHANGED <<raw_posts, faults>>
       ELSE IF DuplicateKey(raw_posts, indexes, CurrentPost)
       THEN /\ scraper' = [scraper EXCEPT
                              !.pos = @ + 1,
                              !.posts = OnDuplicate(@, CurrentPost)]
            /\ UNCHANGED <<raw_posts, faults>>
       ELSE \E o \in WriteOutcomes :
               IF o = "ok"
               THEN /\ raw_posts' = insert_one(raw_posts, CurrentPost)
                    /\ scraper' = [scraper EXCEPT
                                      !.pos = @ + 1,
                                      !.posts = Append(@, CurrentPost)]
                    /\ UNCHANGED faults
               ELSE /\ faults < MaxFaults
                    /\ faults' = faults + 1
                    /\ scraper' = [scraper EXCEPT !.pos = @ + 1]
                    /\ UNCHANGED raw_posts
    /\ UNCHANGED <<preprocessed_posts, enriched_posts, index_exists,
                   index_docs, svc, conns, batches, conc, tp, atStart,
                   aborted, indexes, scrapes, collected, stage, pc, runs,
                   locals, started, returned,
                   result, caught, completions, preSnap, enrSnap, call>>

\* The loop of the scrape call has ended: the call returns its list
ScrapeReturn ==
    /\ scraper.who # "none" /\ scraper.pc = "loop"
    /\ scraper.pos > Len(scraper.items)
    /\ collected' = [who |-> scraper.who, name |-> scraper.name,
                     posts |-> scraper.posts, raised |-> FALSE]
    /\ scraper' = [who |-> scraper.who, pc |-> "ready"]
    /\ UNCHANGED <<db, svc, conns, batches, conc, tp, atStart, aborted,
                   indexes, scrapes, stage, pc, runs, faults, locals,
                   started, returned, result, caught, completions, preSnap,
                   enrSnap, call>>

\* Fetching the next item raises inside the loop: the except branch of the
\* call returns an empty list (Reddit, Telegram) or the list so far (Twitter)
ScrapeFetchFault ==
    /\ scraper.who # "none" /\ scraper.pc = "loop"
    /\ scraper.pos <= Len(scraper.items)
    /\ faults < MaxFaults
    /\ faults' = faults + 1
    /\ collected' = [who |-> scraper.who, name |-> scraper.name,
                     posts |-> IF scraper.who = "twitter" THEN scraper.posts
                               ELSE <<>>,
                     raised |-> FALSE]
    /\ scraper' = [who |-> scraper.who, pc |-> "ready"]
    /\ UNCHANGED <<db, svc, conns, batches, conc, tp, atStart, aborted,
                   indexes, scrapes, stage, pc, runs, locals, started,
                   returned, result, caught, completions, preSnap, enrSnap,
                   call>>

\* close(): the scraper is done
ScraperClose ==
    /\ scraper.who # "none" /\ scraper.pc = "ready"
    /\ scraper' = NoScraper
    /\ UNCHANGED <<db, svc, conns, batches, conc, tp, atStart, aborted,
                   indexes, scrapes, collected, stage, pc, runs, faults,
                   locals, started, returned, result, caught, completions,
                   preSnap, enrSnap, call>>

CollectorInit == Init /\ raw_posts = <<>>

CollectorNext ==
    \/ ScraperInit
    \/ ScrapeStart
    \/ ScrapePost
    \/ ScrapeFetchFault
    \/ ScrapeReturn
    \/ ScraperClose

CollectorSpec == CollectorInit /\ [][CollectorNext]_vars

(***************************************************************************)
(* The Collectors and the pipeline on one store, taking turns: a scraper   *)
(* is constructed while main() is not running, and main() is started       *)
(* while no scraper exists.  Scrape calls and pipeline runs together are   *)
(* bounded by MaxScrapes.                                                  *)
(***************************************************************************)
\* A scrape call or a pipeline run may still be started
Budget == scrapes + runs < MaxScrapes

StoreNext ==
    \/ stage = "idle" /\ Budget /\ ScraperInit
    \/ stage = "idle" /\ Budget /\ ScrapeStart
    \/ stage = "idle" /\ ScrapePost
    \/ stage = "idle" /\ ScrapeFetchFault
    \/ stage = "idle" /\ ScrapeReturn
    \/ stage = "idle" /\ ScraperClose
    \/ scraper.who = "none" /\ Budget /\ StartPipeline
    \/ Collect
    \/ NormInit
    \/ NormScan
    \/ NormScanEnd
    \/ NormSave
    \/ NormReturn
    \/ EnrInit
    \/ EnrDoc
    \/ EnrCursorFault
    \/ EnrReturn
    \/ PubInit
    \/ PubCreateIndex
    \/ PubDoc
    \/ PubCursorFault
    \/ PubReturn
    \/ Complete

StoreSpec == CollectorInit /\ [][StoreNext]_vars

(***************************************************************************)
(* The pipeline with crashes: the process running main() may be killed at  *)
(* any point of a run.  The collections keep what was committed, the       *)
(* locals are lost, nothing is returned or logged, and the pipeline may    *)
(* be started again.                                                       *)
(***************************************************************************)
Crash ==
    /\ stage # "idle"
    /\ faults < MaxFaults
    /\ faults' = faults + 1
    /\ stage' = "idle"
    /\ pc' = "init"
    /\ ResetLocals
    /\ aborted' = aborted \cup {stage}
    /\ UNCHANGED <<db, svc, conns, batches, conc, collector, tp, atStart,
                   runs, started, returned, result, caught, completions,
                   preSnap, enrSnap, call>>

NextCrash ==
    \/ Next
    \/ Crash

CrashSpec == Init /\ [][NextCrash]_vars

(***************************************************************************)
(* preprocess_text, one statement at a time.  The argument is any Python   *)
(* value: a str (its characters) or a value of another type.  stop_words   *)
(* and lemmatizer are attributes of the instance: those that __init__      *)
(* sets, or those a caller has put in their place, as the repository's     *)
(* test_preprocess_text does.                                              *)
(***************************************************************************)
TextExample ==
    << "<", "p", ">", "H", "e", "l", "l", "o", ",", " ", "w", "o", "r",
      "l", "d", "!", " ", "I", " ", "a", "m", " ", "r", "u", "n", "n",
      "i", "n", "g", " ", "t", "o", " ", "t", "h", "e", " ", "s", "t",
      "o", "r", "e", ".", "<", "/", "p", ">" >>
TextVisit ==
    << "V", "i", "s", "i", "t", " ", "H", "T", "T", "P", ":", "/", "/",
      "X", ".", "C", "O", " ", "n", "o", "w" >>

\* The arguments of the calls
TextArgs ==
    { [type |-> "str", value |-> TextExample],
      [type |-> "str", value |-> TextTitle],
      [type |-> "str", value |-> TextBad],
      [type |-> "str", value |-> TextGood],
      [type |-> "str", value |-> TextHi],
      [type |-> "str", value |-> TextVisit],
      [type |-> "str", value |-> <<>>],
      [type |-> "NoneType"],
      [type |-> "int"] }

\* stop_words and lemmatizer as test_preprocess_text patches them
TestStopWords == { <<"a","m">>, <<"a">>, <<"t","h","e">> }
TestLemmaRules ==
    { << <<"r","u","n","n","i","n","g">>, <<"r","u","n">> >> }

\* The instances: as constructed, as patched by the test, and patched with
\* a lemma that is itself a stop word
Preprocessors ==
    { [name |-> "nltk", stop_words |-> stop_words, lemmas |-> LemmaRules],
      [name |-> "test", stop_words |-> TestStopWords,
       lemmas |-> TestLemmaRules],
      [name |-> "test_run", stop_words |-> TestStopWords \cup {<<"r","u","n">>},
       lemmas |-> TestLemmaRules] }

\* preprocess_text(text) is called on an instance
TextCall ==
    /\ tp.pc = "none"
    /\ \E arg \in TextArgs, self \in Preprocessors :
          tp' = [pc |-> "check", arg |-> arg, self |-> self, text |-> <<>>,
                 tokens |-> <<>>, kept |-> <<>>, clean_tokens |-> <<>>,
                 steps |-> <<>>, ret |-> <<>>]
    /\ UNCHANGED <<db, locals, svc, conns, batches, conc, stage, pc, runs,
                   faults, started, returned, result, caught, completions,
                   preSnap, enrSnap, call, atStart, aborted, collector>>

\* if not isinstance(text, str) or not text: return ""
TextCheck ==
    /\ tp.pc = "check"
    /\ IF tp.arg.type # "str" \/ tp.arg.value = <<>>
       THEN tp' = [tp EXCEPT !.pc = "done", !.ret = <<>>]
       ELSE tp' = [tp EXCEPT !.pc = "lower", !.text = tp.arg.value]
    /\ UNCHANGED <<db, locals, svc, conns, batches, conc, stage, pc, runs,
                   faults, started, returned, result, caught, completions,
                   preSnap, enrSnap, call, atStart, aborted, collector>>

\* text = text.lower()
TextLower ==
    /\ tp.pc = "lower"
    /\ tp' = [tp EXCEPT !.pc = "remove_html", !.text = lower(tp.text),
                        !.steps = Append(tp.steps, "lower")]
    /\ UNCHANGED <<db, locals, svc, conns, batches, conc, stage, pc, runs,
                   faults, started, returned, result, caught, completions,
                   preSnap, enrSnap, call, atStart, aborted, collector>>

\* text = self.remove_html(text)
TextRemoveHtml ==
    /\ tp.pc = "remove_html"
    /\ tp' = [tp EXCEPT !.pc = "remove_urls", !.text = remove_html(tp.text),
                        !.steps = Append(tp.steps, "remove_html")]
    /\ UNCHANGED <<db, locals, svc, conns, batches, conc, stage, pc, runs,
                   faults, started, returned, result, caught, completions,
                   preSnap, enrSnap, call, atStart, aborted, collector>>

\* text = self.remove_urls(text)
TextRemoveUrls ==
    /\ tp.pc = "remove_urls"
    /\ tp' = [tp EXCEPT !.pc = "remove_special_chars",
                        !.text = remove_urls(tp.text),
                        !.steps = Append(tp.steps, "remove_urls")]
    /\ UNCHANGED <<db, locals, svc, conns, batches, conc, stage, pc, runs,
                   faults, started, returned, result, caught, completions,
                   preSnap, enrSnap, call, atStart, aborted, collector>>

\* text = self.remove_special_chars(text)
TextRemoveSpecialChars ==
    /\ tp.pc = "remove_special_chars"
    /\ tp' = [tp EXCEPT !.pc = "split",
                        !.text = remove_special_chars(tp.text),
                        !.steps = Append(tp.steps, "remove_special_chars")]
    /\ UNCHANGED <<db, locals, svc, conns, batches, conc, stage, pc, runs,
                   faults, started, returned, result, caught, completions,
                   preSnap, enrSnap, call, atStart, aborted, collector>>

\* tokens = text.split()
TextSplit ==
    /\ tp.pc = "split"
    /\ tp' = [tp EXCEPT !.pc = "clean_tokens", !.tokens = split(tp.text),
                        !.steps = Append(tp.steps, "split")]
    /\ UNCHANGED <<db, locals, svc, conns, batches, conc, stage, pc, runs,
                   faults, started, returned, result, caught, completions,
                   preSnap, enrSnap, call, atStart, aborted, collector>>

\* clean_tokens = [lemmatize(token) for token in tokens if ...]: the
\* condition is evaluated on the token as split, the lemmatizer is called on
\* the tokens that pass it; kept records those
TextCleanTokens ==
    /\ tp.pc = "clean_tokens"
    /\ LET keep(token) == keep_token(tp.self.stop_words, token)
           kept == SelectSeq(tp.tokens, keep)
       IN tp' = [tp EXCEPT !.pc = "join", !.kept = kept,
                           !.clean_tokens =
                               [i \in 1..Len(kept) |->
                                   lemmatize_with(tp.self.lemmas, kept[i])],
                           !.steps = tp.steps \o <<"filter", "lemmatize">>]
    /\ UNCHANGED <<db, locals, svc, conns, batches, conc, stage, pc, runs,
                   faults, started, returned, result, caught, completions,
                   preSnap, enrSnap, call, atStart, aborted, collector>>

\* clean_text = ' '.join(clean_tokens); return clean_text
TextJoin ==
    /\ tp.pc = "join"
    /\ tp' = [tp EXCEPT !.pc = "done", !.ret = join(tp.clean_tokens),
                        !.steps = Append(tp.steps, "join")]
    /\ UNCHANGED <<db, locals, svc, conns, batches, conc, stage, pc, runs,
                   faults, started, returned, result, caught, completions,
                   preSnap, enrSnap, call, atStart, aborted, collector>>

\* The caller has the returned text; the instance is free for another call
TextReturn ==
    /\ tp.pc = "done"
    /\ tp' = NoText
    /\ UNCHANGED <<db, locals, svc, conns, batches, conc, stage, pc, runs,
                   faults, started, returned, result, caught, completions,
                   preSnap, enrSnap, call, atStart, aborted, collector>>

TextInit == Init /\ raw_posts = <<>>

TextNext ==
    \/ TextCall
    \/ TextCheck
    \/ TextLower
    \/ TextRemoveHtml
    \/ TextRemoveUrls
    \/ TextRemoveSpecialChars
    \/ TextSplit
    \/ TextCleanTokens
    \/ TextJoin
    \/ TextReturn

TextSpec == TextInit /\ [][TextNext]_vars

(***************************************************************************)
(* Two instances of a stage at the same time on one store.  The store      *)
(* executes update_one(filter, update, upsert=True) in two steps: it looks *)
(* for a document matching the filter, then updates the match or inserts.  *)
(* An insert that meets a document another writer inserted in between is   *)
(* rejected by the unique index; the server then either retries the        *)
(* operation or reports DuplicateKeyError to the client, depending on its  *)
(* version and on the update touching the key field, which {"$set": doc}   *)
(* does.                                                                   *)
(***************************************************************************)
Instances == {1, 2}
Other(i) == 3 - i

\* The documents the two instances of save_to_mongodb write
SaveDocs == {processed_doc(RawPool[i]) : i \in DOMAIN RawPool}

\* What the server does with an insert that the unique index rejects
DuplicateOutcomes == {"retry", "DuplicateKeyError"}

\* Two Normalizer instances are each at an update_one call of the loop of
\* save_to_mongodb
SaveStart ==
    /\ conc.kind = "none"
    /\ \E d1 \in SaveDocs, d2 \in SaveDocs :
          conc' = [kind |-> "save",
                   doc |-> <<d1, d2>>,
                   pc |-> <<"call", "call">>,
                   tag |-> <<"none", "none">>]
    /\ UNCHANGED <<db, locals, svc, conns, batches, tp, stage, pc, runs,
                   faults, started, returned, result, caught, completions,
                   preSnap, enrSnap, call, atStart, aborted, collector>>

\* The server looks for a document matching {"url": doc["url"]}
SaveMatch(i) ==
    /\ conc.kind = "save" /\ conc.pc[i] = "call"
    /\ conc' = [conc EXCEPT
                  !.pc[i] = IF upserted(preprocessed_posts, conc.doc[i].url)
                            THEN "insert" ELSE "update"]
    /\ UNCHANGED <<db, locals, svc, conns, batches, tp, stage, pc, runs,
                   faults, started, returned, result, caught, completions,
                   preSnap, enrSnap, call, atStart, aborted, collector>>

\* The server updates the match, or inserts; save_to_mongodb counts the write
\* as inserted (upserted_id set) or updated, or logs the error it raised
SaveApply(i) ==
    /\ conc.kind = "save" /\ conc.pc[i] \in {"update", "insert"}
    /\ LET doc == conc.doc[i]
           fresh == upserted(preprocessed_posts, doc.url)
       IN IF conc.pc[i] = "update" \/ fresh
          THEN /\ preprocessed_posts' = SaveWrite(preprocessed_posts, doc)
               /\ conc' = [conc EXCEPT
                             !.pc[i] = "done",
                             !.tag[i] = IF fresh THEN "INSERTED"
                                        ELSE "UPDATED"]
          ELSE /\ \E o \in DuplicateOutcomes :
                     conc' = [conc EXCEPT
                                !.pc[i] = IF o = "retry" THEN "call"
                                          ELSE "done",
                                !.tag[i] = IF o = "retry" THEN "none"
                                           ELSE "ERROR"]
               /\ UNCHANGED preprocessed_posts
    /\ UNCHANGED <<raw_posts, enriched_posts, index_exists, index_docs,
                   locals, svc, conns, batches, tp, stage, pc, runs, faults,
                   started, returned, result, caught, completions, preSnap,
                   enrSnap, call, atStart, aborted, collector>>

SaveNext ==
    \/ SaveStart
    \/ \E i \in Instances : SaveMatch(i)
    \/ \E i \in Instances : SaveApply(i)

SaveSpec == CollectorInit /\ [][SaveNext]_vars

(***************************************************************************)
(* Two Publisher instances at the same time over one enriched_posts and    *)
(* one index.  The stores are as a Normalizer and an Enricher run without  *)
(* fault leave them; the index is absent or as an earlier Publisher run    *)
(* left it.  Each call of the Elasticsearch client is one step.            *)
(***************************************************************************)
\* preprocessed_posts after save_to_mongodb has written the documents of raw
\* from position i on
RECURSIVE SavedFrom(_, _, _)
SavedFrom(coll, raw, i) ==
    IF i > Len(raw) THEN coll
    ELSE SavedFrom(SaveWrite(coll, processed_doc(raw[i])), raw, i + 1)

\* enriched_posts after NLPProcessor.process_documents has written the
\* documents of pre from position i on
RECURSIVE EnrichedFrom(_, _, _)
EnrichedFrom(coll, pre, i) ==
    IF i > Len(pre) THEN coll
    ELSE LET d == detect_language(pre[i].content, "ok")
             e == enriched_doc(pre[i], d.value,
                      analyze_sentiment(pre[i].content, d.value, "ok"))
         IN EnrichedFrom(EnrichWrite(coll, pre[i], e), pre, i + 1)

PublishersInit ==
    /\ InitProcess
    /\ raw_posts \in RawCollections
    /\ preprocessed_posts = SavedFrom(<<>>, raw_posts, 1)
    /\ enriched_posts = EnrichedFrom(<<>>, preprocessed_posts, 1)
    /\ index_exists \in BOOLEAN
    /\ index_docs = IF index_exists
                    THEN [i \in DOMAIN enriched_posts |->
                             transform_document(enriched_posts[i])]
                    ELSE <<>>

\* The other instance is inside its run
Overlaps(i) == conc.pc[Other(i)] \notin {"exists", "done"}

\* Mutant of deleted: indices.delete leaves the documents in place
deleted_keeps(docs) == docs

\* The documents of the index after indices.delete(index)
deleted(docs) == <<>>

\* Two main() processes have each constructed their ElasticsearchIndexer
PublishStart ==
    /\ conc.kind = "none"
    /\ conc' = [kind |-> "publish",
                pc |-> <<"exists", "exists">>,
                cur |-> <<1, 1>>,
                actions |-> << <<>>, <<>> >>,
                ok |-> <<"none", "none">>,
                overlapped |-> FALSE]
    /\ UNCHANGED <<db, locals, svc, conns, batches, tp, stage, pc, runs,
                   faults, started, returned, result, caught, completions,
                   preSnap, enrSnap, call, atStart, aborted, collector>>

\* create_index(): if self.es.indices.exists(index=...)
PublishExists(i) ==
    /\ conc.kind = "publish" /\ conc.pc[i] = "exists"
    /\ conc' = [conc EXCEPT
                  !.pc[i] = IF index_exists THEN "delete" ELSE "create",
                  !.overlapped = @ \/ Overlaps(i)]
    /\ UNCHANGED <<db, locals, svc, conns, batches, tp, stage, pc, runs,
                   faults, started, returned, result, caught, completions,
                   preSnap, enrSnap, call, atStart, aborted, collector>>

\* create_index(): self.es.indices.delete(index=...); of an index that is
\* gone it raises NotFoundError, which migrate_to_elasticsearch catches
PublishDelete(i) ==
    /\ conc.kind = "publish" /\ conc.pc[i] = "delete"
    /\ IF index_exists
       THEN /\ index_exists' = FALSE
            /\ index_docs' = deleted(index_docs)
            /\ conc' = [conc EXCEPT !.pc[i] = "create",
                                    !.overlapped = @ \/ Overlaps(i)]
       ELSE /\ conc' = [conc EXCEPT !.pc[i] = "done", !.ok[i] = "False",
                                    !.overlapped = @ \/ Overlaps(i)]
            /\ UNCHANGED <<index_exists, index_docs>>
    /\ UNCHANGED <<raw_posts, preprocessed_posts, enriched_posts, locals,
                   svc, conns, batches, tp, stage, pc, runs, faults, started,
                   returned, result, caught, completions, preSnap, enrSnap,
                   call, atStart, aborted, collector>>

\* create_index(): self.es.indices.create(index=..., body=mappings); of an
\* index that exists it raises RequestError, which migrate_to_elasticsearch
\* catches
PublishCreate(i) ==
    /\ conc.kind = "publish" /\ conc.pc[i] = "create"
    /\ IF ~index_exists
       THEN /\ index_exists' = TRUE
            /\ conc' = [conc EXCEPT !.pc[i] = "load",
                                    !.overlapped = @ \/ Overlaps(i)]
       ELSE /\ conc' = [conc EXCEPT !.pc[i] = "done", !.ok[i] = "False",
                                    !.overlapped = @ \/ Overlaps(i)]
            /\ UNCHANGED index_exists
    /\ UNCHANGED <<raw_posts, preprocessed_posts, enriched_posts, index_docs,
                   locals, svc, conns, batches, tp, stage, pc, runs, faults,
                   started, returned, result, caught, completions, preSnap,
                   enrSnap, call, atStart, aborted, collector>>

\* helpers.bulk(self.es, batch) without a fault of its own: into an index
\* that is gone, the cluster creates the index (action.auto_create_index)
\* or rejects the actions, and _bulk_index logs
PublishBulk(batch) ==
    IF index_exists
    THEN index_docs' = bulk_index(index_docs, batch, "ok")
         /\ UNCHANGED index_exists
    ELSE \E auto \in BOOLEAN :
            IF auto
            THEN index_exists' = TRUE
                 /\ index_docs' = bulk_index(index_docs, batch, "ok")
            ELSE UNCHANGED <<index_exists, index_docs>>

\* One iteration of the loop of index_documents in instance i
PublishDoc(i) ==
    /\ conc.kind = "publish" /\ conc.pc[i] = "load"
    /\ conc.cur[i] <= Len(enriched_posts)
    /\ LET batch == Append(conc.actions[i],
                           transform_document(enriched_posts[conc.cur[i]]))
       IN IF BatchFull(batch)
          THEN /\ PublishBulk(batch)
               /\ conc' = [conc EXCEPT !.actions[i] = <<>>,
                                       !.cur[i] = @ + 1,
                                       !.overlapped = @ \/ Overlaps(i)]
          ELSE /\ conc' = [conc EXCEPT !.actions[i] = batch,
                                       !.cur[i] = @ + 1,
                                       !.overlapped = @ \/ Overlaps(i)]
               /\ UNCHANGED <<index_exists, index_docs>>
    /\ UNCHANGED <<raw_posts, preprocessed_posts, enriched_posts, locals,
                   svc, conns, batches, tp, stage, pc, runs, faults, started,
                   returned, result, caught, completions, preSnap, enrSnap,
                   call, atStart, aborted, collector>>

\* The loop of index_documents of instance i ends: the remaining actions are
\* handed over and migrate_to_elasticsearch returns True
PublishReturn(i) ==
    /\ conc.kind = "publish" /\ conc.pc[i] = "load"
    /\ conc.cur[i] > Len(enriched_posts)
    /\ IF conc.actions[i] # <<>>
       THEN PublishBulk(conc.actions[i])
       ELSE UNCHANGED <<index_exists, index_docs>>
    /\ conc' = [conc EXCEPT !.pc[i] = "done", !.ok[i] = "True",
                            !.actions[i] = <<>>,
                            !.overlapped = @ \/ Overlaps(i)]
    /\ UNCHANGED <<raw_posts, preprocessed_posts, enriched_posts, locals,
                   svc, conns, batches, tp, stage, pc, runs, faults, started,
                   returned, result, caught, completions, preSnap, enrSnap,
                   call, atStart, aborted, collector>>

PublishersNext ==
    \/ PublishStart
    \/ \E i \in Instances : PublishExists(i)
    \/ \E i \in Instances : PublishDelete(i)
    \/ \E i \in Instances : PublishCreate(i)
    \/ \E i \in Instances : PublishDoc(i)
    \/ \E i \in Instances : PublishReturn(i)

PublishersSpec == PublishersInit /\ [][PublishersNext]_vars

(***************************************************************************)
(* Properties.                                                             *)
(***************************************************************************)
UniqueUrls(coll) ==
    \A i, j \in DOMAIN coll : coll[i].url = coll[j].url => i = j

NormalizerLoopDone ==
    stage = "normalize" /\ pc = "save" /\ cur > Len(processed_docs)

EnricherLoopDone ==
    stage = "enrich" /\ pc = "loop" /\ cur > Len(preprocessed_posts)

\* The documents of coll without the field named
WithoutField(coll, field) ==
    [i \in DOMAIN coll |->
        [k \in DOMAIN coll[i] \ {field} |-> coll[i][k]]]

\* C1: in every reachable state, whatever runs, reruns and failed writes
\* came before, preprocessed_posts holds at most one document per url and
\* enriched_posts holds at most one document per url.
C1_OneDocumentPerUrl ==
    UniqueUrls(preprocessed_posts) /\ UniqueUrls(enriched_posts)

\* C1 witness: a rerun of the Normalizer, after a failed write, updates a
\* document that exists while enriched_posts holds documents too.
C1_Witness ==
    /\ runs = 2
    /\ faults > 0
    /\ stage = "normalize" /\ pc = "save"
    /\ skipped_count > 0
    /\ Len(preprocessed_posts) >= 2
    /\ Len(enriched_posts) >= 2

\* C2: when a Normalizer run without fault ends on the raw collection that
\* the previous Normalizer run without fault ended on, preprocessed_posts
\* is what that previous run left (the same documents with the same field
\* values) and the run has inserted no document.
C2_NormalizerIdempotent ==
    (NormalizerLoopDone /\ clean /\ preSnap # <<>> /\ preSnap[1] = raw_posts)
        => /\ preprocessed_posts = preSnap[2]
           /\ inserted_count = 0
           /\ skipped_count = Len(raw_posts)

\* C2 witness: the second run ends on three raw documents, two of which
\* share the url "".
C2_Witness ==
    /\ NormalizerLoopDone /\ clean
    /\ preSnap # <<>> /\ preSnap[1] = raw_posts
    /\ Len(raw_posts) = 3
    /\ Len(preprocessed_posts) = 2

\* C3 as stated: when an Enricher run without fault ends on the
\* preprocessed_posts that the previous Enricher run without fault ended
\* on, enriched_posts is what that previous run left, every stored field
\* included.
C3_EnricherIdempotentAllFields ==
    (EnricherLoopDone /\ clean /\ enrSnap # <<>>
        /\ enrSnap[1] = preprocessed_posts)
        => enriched_posts = enrSnap[2]

\* C3 amended: under the same conditions, with a detector and a scorer that
\* answer the same for the same text, enriched_posts holds the same urls
\* and the same value of every stored field other than enriched_at, which
\* the later run has set to its own time on every document.
C3_EnricherIdempotentButEnrichedAt ==
    (EnricherLoopDone /\ clean /\ enrSnap # <<>>
        /\ enrSnap[1] = preprocessed_posts)
        => /\ WithoutField(enriched_posts, "enriched_at")
                = WithoutField(enrSnap[2], "enriched_at")
           /\ \A i \in DOMAIN enriched_posts :
                 enriched_posts[i].enriched_at = Now

\* C3 witness: the second Enricher run ends on two preprocessed documents.
C3_Witness ==
    /\ EnricherLoopDone /\ clean
    /\ enrSnap # <<>> /\ enrSnap[1] = preprocessed_posts
    /\ Len(preprocessed_posts) >= 2
    /\ runs = 2

\* C4: a write of save_to_mongodb that does not raise, for a document whose
\* url is absent from preprocessed_posts, inserts the document, adds one to
\* inserted_count and one to the number of documents; for a url that is
\* present it overwrites the fields of that document, adds one to
\* skipped_count (the updated counter) and leaves the number of documents
\* unchanged.  The value save_to_mongodb returns is inserted_count, and 0
\* for an empty list.
C4_UpsertCounters ==
    [][ /\ (stage = "normalize" /\ pc = "save" /\ attempts' = attempts + 1
              /\ failed' = failed)
           => LET doc == processed_docs[cur]
                  i == FirstMatch(preprocessed_posts', doc.url)
              IN /\ Matches(preprocessed_posts', doc.url) # {}
                 /\ \A k \in DOMAIN doc : preprocessed_posts'[i][k] = doc[k]
                 /\ IF doc.url \notin Urls(preprocessed_posts)
                    THEN /\ Count(preprocessed_posts')
                              = Count(preprocessed_posts) + 1
                         /\ inserted_count' = inserted_count + 1
                         /\ skipped_count' = skipped_count
                    ELSE /\ Count(preprocessed_posts')
                              = Count(preprocessed_posts)
                         /\ inserted_count' = inserted_count
                         /\ skipped_count' = skipped_count + 1
        /\ (NormalizerLoopDone /\ stage' # "normalize")
           => /\ result'.inserted = inserted_count
              /\ processed_docs = <<>> => result'.inserted = 0
      ]_vars

\* C4 witness: one run of save_to_mongodb has inserted a document and
\* updated another.
C4_Witness ==
    /\ stage = "normalize" /\ pc = "save"
    /\ inserted_count > 0
    /\ skipped_count > 0

\* C5: a Normalizer or Enricher run over n documents, the writes of the
\* positions in failed raising, calls update_one once per document in scan
\* order, n times in all, and counts n - |failed| successes (inserted plus
\* updated for the Normalizer, processed_count for the Enricher).
C5_PartialFailureContinues ==
    /\ (stage = "normalize" /\ pc = "save") => attempts = cur - 1
    /\ (stage = "enrich" /\ pc = "loop") => attempts = cur - 1
    /\ NormalizerLoopDone
          => /\ attempts = Len(raw_posts)
             /\ inserted_count + skipped_count
                   = Len(raw_posts) - Cardinality(failed)
    /\ EnricherLoopDone
          => /\ attempts = Len(preprocessed_posts)
             /\ processed_count
                   = Len(preprocessed_posts) - Cardinality(failed)

\* C5 witness: three documents, the write of the second one fails, the
\* Enricher reports 2.
C5_Witness ==
    /\ EnricherLoopDone
    /\ Len(preprocessed_posts) = 3
    /\ failed = {2}
    /\ attempts = 3
    /\ processed_count = 2

\* C6 as stated: a fault of the detector or of the scorer for one document
\* does not leave the loop of the Enricher: the document reaches its write
\* with language "unknown" (polarity 0 and sentiment "neutral" for the
\* scorer), and the loop goes on with the next document of
\* preprocessed_posts.
C6_ServiceFaultTolerated ==
    (call.stage = "enrich" /\ (call.det # "ok" \/ call.sco = "Exception"))
        => /\ ~call.escaped
           /\ call.next = call.pos + 1
           /\ call.det # "ok" => call.language = "unknown"
           /\ call.sco = "Exception"
                 => call.polarity = 0 /\ call.sentiment = "neutral"

\* C7 as stated: detect_language returns "unknown" without calling the
\* detector for a text that is empty or shorter than 3 characters, returns
\* "unknown" whatever fault the detector raises, and otherwise returns what
\* the detector answers on the first 1000 characters of the text.
C7_DetectLanguageFallback ==
    call.stage = "enrich"
        => /\ (call.content = <<>> \/ Len(call.content) < 3)
                 => ~call.invoked /\ call.language = "unknown"
           /\ (call.invoked /\ call.det # "ok")
                 => call.language = "unknown" /\ call.detRaised = "none"
           /\ (call.invoked /\ call.det = "ok")
                 => /\ call.arg = SubSeq(call.content, 1,
                                         Min(Len(call.content), 1000))
                    /\ call.language = Lookup(svc.lang, call.arg, "en")
                    /\ call.detRaised = "none"

\* C8: a polarity is labelled "positive" exactly when it is above 0.1,
\* "negative" exactly when it is below -0.1 and "neutral" otherwise, so 0.1
\* and -0.1 are neutral and 0.1000001 is positive; an empty text gets
\* polarity 0 and "neutral" without a call of the scorer; the sentiment of
\* every document of enriched_posts is the label of its polarity.
C8_SentimentThresholds ==
    /\ \A i \in DOMAIN enriched_posts :
          LET doc == enriched_posts[i]
          IN /\ doc.sentiment \in {"positive", "neutral", "negative"}
             /\ doc.sentiment = "positive" <=> doc.polarity > 1000000
             /\ doc.sentiment = "negative" <=> doc.polarity < -1000000
    /\ (call.stage = "enrich" /\ ~call.escaped)
          => /\ call.sentiment = "positive" <=> call.polarity > 1000000
             /\ call.sentiment = "negative" <=> call.polarity < -1000000
             /\ call.content = <<>>
                   => /\ ~call.scored
                      /\ call.polarity = 0
                      /\ call.sentiment = "neutral"
    /\ sentiment_of(1000000) = "neutral"
    /\ sentiment_of(-1000000) = "neutral"
    /\ sentiment_of(1000001) = "positive"

\* C8 witness: enriched_posts holds a document of polarity exactly 0.1,
\* neutral, and one of polarity just below -0.1, negative.
C8_Witness ==
    /\ \E i \in DOMAIN enriched_posts :
          /\ enriched_posts[i].polarity = 1000000
          /\ enriched_posts[i].sentiment = "neutral"
    /\ \E i \in DOMAIN enriched_posts :
          /\ enriched_posts[i].polarity = -1000001
          /\ enriched_posts[i].sentiment = "negative"

\* C9: a run of main() invokes the stages in the order collect, normalize,
\* enrich, publish: a stage is invoked only when every stage invoked
\* before it has returned, with its loops ended and nothing left to write,
\* so at most one stage is active.
C9_StagesSequential ==
    /\ Len(started) <= Len(StageOrder)
    /\ \A i \in DOMAIN started : started[i] = StageOrder[i]
    /\ returned \subseteq Range(started)
    /\ Cardinality(Range(started) \ returned) <= 1
    /\ \A i \in DOMAIN started :
          i < Len(started) => started[i] \in returned
    /\ (stage \in Stages /\ pc # "init")
          => /\ started # <<>>
             /\ started[Len(started)] = stage
             /\ stage \notin returned
    /\ (stage \in Stages /\ pc = "init" /\ stage # "collect")
          => /\ Range(started) = returned
             /\ cur = 1 /\ processed_docs = <<>> /\ actions = <<>>

\* C9 witness: a run in which every stage has worked on documents is at its
\* completion line.
C9_Witness ==
    /\ stage = "complete"
    /\ started = StageOrder
    /\ result.normalize = 3
    /\ result.enrich = 2
    /\ Len(index_docs) = 2

\* C10: a fault caught by the wrapper of a stage gives that stage a zero or
\* false result and stops nothing: every later stage is invoked, and every
\* run that main() has started reaches its completion line.
C10_FaultsStayInsideStage ==
    /\ "collect" \in caught => result.collect = "failed"
    /\ "normalize" \in caught => result.normalize = 0
    /\ "enrich" \in caught => result.enrich = 0
    /\ "publish" \in caught => result.publish = "False"
    /\ caught \subseteq returned
    /\ stage = "complete" => started = StageOrder /\ returned = Stages
    /\ stage = "idle" => completions = runs
    /\ stage # "idle" => completions = runs - 1

\* C10 witness: a run in which two stages have caught a fault is at its
\* completion line.
C10_Witness ==
    /\ stage = "complete"
    /\ Cardinality(caught) = 2
    /\ "publish" \in caught

\* Writes the running stage instance has issued so far: update_one calls of
\* the Normalizer and of the Enricher, documents handed to _bulk_index by
\* the Publisher
WritesIssued ==
    IF stage = "publish" THEN (cur - 1) - Len(actions) ELSE attempts

\* C11 as stated: in the Normalizer, the Enricher and the Publisher, when the
\* document at position cur is read from the source collection, the writes
\* of all the documents before it have been issued.
C11_OneDocumentAtATime ==
    [][(NormScan \/ EnrDoc \/ PubDoc) => WritesIssued >= cur - 1]_vars

\* C11 amended: the Enricher reads document cur only after the writes of all
\* earlier documents were issued; the Normalizer issues its first write only
\* after the whole source collection was read, then one write per document
\* in scan order; the Publisher has handed over all earlier documents in
\* full batches except the fewer than BatchSize documents still waiting in
\* actions.
C11_HandledInScanOrder ==
    [][ /\ EnrDoc => attempts = cur - 1
        /\ NormSave => /\ Len(processed_docs) = Len(raw_posts)
                       /\ attempts = cur - 1
        /\ PubDoc => /\ WritesIssued = attempts * BatchSize
                     /\ Len(actions) < BatchSize ]_vars

\* C11 witness: the Enricher is about to read its third document, the writes
\* of the first two having been issued and stored.
C11_Witness ==
    /\ stage = "enrich" /\ pc = "loop"
    /\ cur = 3 /\ attempts = 2
    /\ call.pos = 2 /\ call.written
    /\ Len(enriched_posts) = 2
    /\ Len(preprocessed_posts) = 3

\* The key under which the stages store the document made from doc
KeyOf(doc) == Get(doc, "url", "")

\* The keys of the first k documents of src
PrefixUrls(src, k) == {KeyOf(src[i]) : i \in 1..k}

\* The last of the first k documents of src with key u
LastWithUrl(src, k, u) ==
    CHOOSE i \in 1..k :
        /\ KeyOf(src[i]) = u
        /\ \A j \in 1..k : KeyOf(src[j]) = u => j <= i

\* The documents of coll whose url is not in urls
Others(coll, urls) == {coll[i] : i \in {j \in DOMAIN coll : coll[j].url \notin urls}}

\* preprocessed_posts holds, for each key of the first k raw documents,
\* exactly one document: the cleaned form of the last of them with that key
NormCommitted(k) ==
    \A u \in PrefixUrls(raw_posts, k) :
        /\ Cardinality(Matches(preprocessed_posts, u)) = 1
        /\ preprocessed_posts[FirstMatch(preprocessed_posts, u)]
              = processed_doc(raw_posts[LastWithUrl(raw_posts, k, u)])

\* enriched_posts holds, for each key of the first k preprocessed documents,
\* exactly one document, written by the current run from that document
EnrCommitted(k) ==
    \A u \in PrefixUrls(preprocessed_posts, k) :
        /\ Cardinality(Matches(enriched_posts, u)) = 1
        /\ LET e == enriched_posts[FirstMatch(enriched_posts, u)]
               d == preprocessed_posts[LastWithUrl(preprocessed_posts, k, u)]
           IN /\ e.enriched_at = Now
              /\ e.title = d.title /\ e.content = d.content
              /\ e.author = d.author /\ e.date = d.date
              /\ DOMAIN e = DOMAIN d \cup {"language", "sentiment",
                                           "polarity", "enriched_at"}

AtDuplicate ==
    /\ scraper.who # "none" /\ scraper.pc = "loop"
    /\ scraper.pos <= Len(scraper.items)
    /\ ~LimitReached /\ ~Skipped
    /\ DuplicateKey(raw_posts, indexes, CurrentPost)

\* Every post of list is stored in posts as listed
AllStored(list) ==
    \A i \in DOMAIN list : \E j \in DOMAIN raw_posts : raw_posts[j] = list[i]

\* C13: when the insert of a post raises DuplicateKeyError, the step of the
\* Collector leaves posts as it was, does not add the post to its list,
\* raises nothing (the call stays in its loop, no fault is counted) and
\* moves to the next item; the list a call holds or has returned names only
\* posts that are stored exactly as listed, so never a rejected duplicate.
C13_DuplicateKeySwallowed ==
    [][ /\ (AtDuplicate /\ ScrapePost)
             => /\ raw_posts' = raw_posts
                /\ scraper'.posts = scraper.posts
                /\ scraper'.who = scraper.who /\ scraper'.pc = "loop"
                /\ scraper'.pos = scraper.pos + 1
                /\ faults' = faults
        /\ (scraper'.who # "none" /\ scraper'.pc = "loop")
             => AllStored(scraper.posts)'
        /\ ScrapeReturn => /\ collected'.posts = scraper.posts
                           /\ AllStored(collected.posts)' ]_vars

\* C13 witness: a second scrape of the subreddit found its first post
\* already stored, skipped it, inserted the next one and returned a list
\* of that one post; the stored first post is the one of the first scrape.
C13_Witness ==
    /\ collected.who = "reddit" /\ scrapes = 2
    /\ Len(collected.posts) = 1
    /\ collected.posts[1].post_id = "abd"
    /\ Len(raw_posts) = 2
    /\ raw_posts[1].post_id = "abc" /\ raw_posts[1].scraped_at = 1
    /\ raw_posts[2] = collected.posts[1]

\* C15: a post of Reddit or Telegram is rejected as a duplicate only when
\* posts holds a post of the same url, a post of Twitter only when posts
\* holds a post of the same post_id, whichever unique indexes the
\* Collectors have created on posts.
C15_RejectedOnlyOnNaturalKey ==
    [][ (AtDuplicate /\ ScrapePost)
          => IF scraper.who = "twitter"
             THEN \E j \in DOMAIN raw_posts :
                     raw_posts[j].post_id = CurrentPost.post_id
             ELSE \E j \in DOMAIN raw_posts :
                     raw_posts[j].url = CurrentPost.url ]_vars

\* C14: no step of a Collector, of the Normalizer, of the Enricher or of the
\* Publisher changes or removes a post that posts holds: every post of
\* posts is in posts after the step, field for field, and at its place.
C14_RawPostsImmutable ==
    [][ /\ Len(raw_posts') >= Len(raw_posts)
        /\ \A i \in DOMAIN raw_posts : raw_posts'[i] = raw_posts[i] ]_vars

\* C14 witness: a post collected by the first scrape call has since been
\* read by a complete pipeline run that published it and seen a later
\* scrape call add a post; it is as it was written.
C14_Witness ==
    /\ Len(raw_posts) >= 2
    /\ raw_posts[1].scraped_at = 1
    /\ raw_posts[Len(raw_posts)].scraped_at = 2
    /\ scrapes = 2 /\ runs = 1 /\ completions = 1
    /\ Len(preprocessed_posts) = 1
    /\ Len(enriched_posts) = 1
    /\ Len(index_docs) = 1
    /\ index_docs[1].url = raw_posts[1].url

\* The Publisher has reached the end of its scan
PublisherLoopDone ==
    stage = "publish" /\ pc = "loop" /\ cur > Len(enriched_posts)

\* C16: a Publisher run in which nothing fails ends with an index of exactly
\* one document per document of enriched_posts, in scan order, whatever the
\* index held before the run: what earlier runs loaded is dropped with the
\* index and does not accumulate.
C16_IndexRebuiltEachRun ==
    [][ (PublisherLoopDone /\ clean /\ PubReturn /\ faults' = faults)
          => /\ index_exists'
             /\ Len(index_docs') = Len(enriched_posts)
             /\ \A i \in DOMAIN enriched_posts :
                   /\ index_docs'[i].url = enriched_posts[i].url
                   /\ index_docs'[i].indexed_at = Now ]_vars

\* C16 witness: the second of two fault-free runs over three documents has
\* published; the index holds three documents, all loaded by the second
\* run.
C16_Witness ==
    /\ stage = "complete" /\ runs = 2 /\ completions = 1 /\ faults = 0
    /\ result.publish = "True"
    /\ Len(enriched_posts) = 3
    /\ Len(index_docs) = 3
    /\ \A i \in DOMAIN index_docs : index_docs[i].indexed_at = 2

\* C17: a step of the Publisher whose bulk call fails leaves the index as it
\* was, empties actions (the batch is dropped, not kept for another try) and
\* goes on with the scan; at the end of the scan every full batch has been
\* submitted once, the rest is submitted, the index holds the documents of
\* the batches that did not fail and each of them once, and the wrapper
\* returns True.
C17_BatchFailureSkipped ==
    [][ /\ (PubDoc /\ faults' = faults + 1)
             => /\ index_docs' = index_docs
                /\ actions' = <<>>
                /\ cur' = cur + 1
                /\ stage' = "publish" /\ pc' = "loop"
        /\ (PublisherLoopDone /\ PubReturn)
             => /\ attempts = Len(enriched_posts) \div BatchSize
                /\ Len(actions) = Len(enriched_posts) % BatchSize
                /\ Len(index_docs')
                     = (attempts - Cardinality(failed)) * BatchSize
                       + (IF faults' = faults THEN Len(actions) ELSE 0)
                /\ UniqueUrls(index_docs')
                /\ result'.publish = "True"
                /\ "publish" \notin caught' ]_vars

\* C17 witness: the bulk call of the first batch of two documents failed,
\* the last batch of one document was submitted and loaded, and the wrapper
\* returned True.
C17_Witness ==
    /\ stage = "complete"
    /\ result.publish = "True"
    /\ Len(enriched_posts) = 3
    /\ Len(index_docs) = 1
    /\ index_docs[1].url = enriched_posts[3].url

\* The fields of an enriched document and of a SearchDocument
EnrichedFields ==
    {"title", "content", "author", "date", "url", "language", "sentiment",
     "polarity"}
SearchFields ==
    {"titre", "contenu", "auteur", "date", "url", "langue", "sentiment",
     "score", "indexed_at"}

\* doc without the fields of F
Without(doc, F) == [k \in DOMAIN doc \ F |-> doc[k]]

\* The sets of fields left out of the documents projected
FieldDrops == {{}} \cup {{f} : f \in EnrichedFields} \cup {EnrichedFields}

\* e is the SearchDocument of the enriched document d
ProjectionOf(d, e) ==
    /\ DOMAIN e = SearchFields
    /\ e.titre = (IF "title" \in DOMAIN d THEN d.title ELSE <<>>)
    /\ e.contenu = (IF "content" \in DOMAIN d THEN d.content ELSE <<>>)
    /\ e.auteur = (IF "author" \in DOMAIN d THEN d.author ELSE "unknown")
    /\ "date" \in DOMAIN d => e.date = d.date
    /\ e.url = (IF "url" \in DOMAIN d THEN d.url ELSE "")
    /\ e.langue = (IF "language" \in DOMAIN d THEN d.language ELSE "unknown")
    /\ e.sentiment
         = (IF "sentiment" \in DOMAIN d THEN d.sentiment ELSE "neutral")
    /\ e.score = (IF "polarity" \in DOMAIN d THEN d.polarity ELSE 0)
    /\ e.indexed_at = Now

\* C18: transform_document maps an enriched document, with all its fields
\* or with some of them absent, to a SearchDocument of the nine fields in
\* which every present field is copied unaltered under its new name, an
\* absent one is "" / "unknown" / "neutral" / 0, and indexed_at is added;
\* and what the Publisher has handed over or holds in actions, while no bulk
\* call of the run has failed, is that projection of the documents read.
C18_ProjectionKeepsValues ==
    /\ \A i \in DOMAIN enriched_posts : \A F \in FieldDrops :
          ProjectionOf(Without(enriched_posts[i], F),
                       transform_document(Without(enriched_posts[i], F)))
    /\ (stage = "publish" /\ pc = "loop" /\ clean)
          => /\ Len(index_docs \o actions) = cur - 1
             /\ \A i \in 1..(cur - 1) :
                   ProjectionOf(enriched_posts[i], (index_docs \o actions)[i])

\* C18 witness: the Publisher has read two enriched documents whose
\* polarities are not 0 and are beyond the thresholds, and has loaded them.
C18_Witness ==
    /\ stage = "publish" /\ pc = "loop" /\ clean /\ cur = 3
    /\ Len(index_docs) = 2
    /\ index_docs[1].score < NegativeThreshold
    /\ index_docs[1].sentiment = "negative"
    /\ index_docs[2].score = PositiveThreshold
    /\ index_docs[2].langue = "en"
    /\ index_docs[2].auteur = "unknown"

\* The texts of the end-to-end scenario
TestHtml == <<"t","e","s","t"," ","h","t","m","l">>
BadStuff == <<"b","a","d"," ","s","t","u","f","f">>

\* C19: the raw document of url "u1" with title "Test <b>HTML</b>" and
\* content "Bad http://x.co stuff!!" is stored by the Normalizer with title
\* "test html" and content "bad stuff", by the Enricher with these and
\* with language, sentiment and polarity, and is published with titre
\* "test html", contenu "bad stuff" and the polarity as score; a run
\* without fault publishes exactly one document for it.
C19_EndToEnd ==
    /\ \A i \in DOMAIN raw_posts :
          (KeyOf(raw_posts[i]) = "u1")
             => raw_posts[i].title = TextTitle /\ raw_posts[i].content = TextBad
    /\ \A i \in DOMAIN preprocessed_posts :
          (preprocessed_posts[i].url = "u1")
             => /\ preprocessed_posts[i].title = TestHtml
                /\ preprocessed_posts[i].content = BadStuff
    /\ \A i \in DOMAIN enriched_posts :
          (enriched_posts[i].url = "u1")
             => /\ enriched_posts[i].title = TestHtml
                /\ enriched_posts[i].content = BadStuff
                /\ {"language", "sentiment", "polarity"}
                     \subseteq DOMAIN enriched_posts[i]
                /\ enriched_posts[i].sentiment
                     = sentiment_of(enriched_posts[i].polarity)
    /\ \A i \in DOMAIN index_docs :
          (index_docs[i].url = "u1")
             => /\ index_docs[i].titre = TestHtml
                /\ index_docs[i].contenu = BadStuff
                /\ \E j \in DOMAIN enriched_posts :
                      /\ enriched_posts[j].url = "u1"
                      /\ index_docs[i].score = enriched_posts[j].polarity
    /\ (stage = "complete" /\ faults = 0 /\ "u1" \in PrefixUrls(raw_posts, Len(raw_posts)))
          => /\ Cardinality(Matches(preprocessed_posts, "u1")) = 1
             /\ Cardinality(Matches(enriched_posts, "u1")) = 1
             /\ Cardinality({i \in DOMAIN index_docs :
                                index_docs[i].url = "u1"}) = 1

\* C19 witness: a run without fault over the raw document of url "u1" has
\* published it, with a polarity that is not 0.
C19_Witness ==
    /\ stage = "complete" /\ faults = 0 /\ runs = 1
    /\ Len(raw_posts) = 1 /\ KeyOf(raw_posts[1]) = "u1"
    /\ Len(index_docs) = 1
    /\ index_docs[1].titre = TestHtml /\ index_docs[1].contenu = BadStuff
    /\ index_docs[1].score = NegativeThreshold - 1
    /\ enriched_posts[1].sentiment = "negative"

\* The order of the steps of preprocess_text
StepOrder ==
    <<"lower", "remove_html", "remove_urls", "remove_special_chars", "split",
      "filter", "lemmatize", "join">>

\* The tokens of the example that survive the filter, and the texts that
\* the calls return, written out by hand
HelloWorldRunningStore ==
    << <<"h","e","l","l","o">>, <<"w","o","r","l","d">>, <<"r","u","n","n","i","n","g">>, <<"s","t","o","r","e">> >>
ExpectedText(arg, name) ==
    IF arg.type # "str" THEN <<>>
    ELSE IF arg.value = TextExample
         THEN (IF name = "nltk"
               THEN << "h", "e", "l", "l", "o", " ", "w", "o", "r", "l",
                      "d", " ", "r", "u", "n", "n", "i", "n", "g", " ",
                      "s", "t", "o", "r", "e" >>
               ELSE << "h", "e", "l", "l", "o", " ", "w", "o", "r", "l",
                      "d", " ", "r", "u", "n", " ", "s", "t", "o", "r",
                      "e" >>)
    ELSE IF arg.value = TextTitle THEN TestHtml
    ELSE IF arg.value = TextBad THEN BadStuff
    ELSE IF arg.value = TextGood
         THEN (IF name = "nltk" THEN << "g", "o", "o", "d", " ", "d", "a", "y" >>
               ELSE << "g", "o", "o", "d", " ", "d", "a", "y", "s" >>)
    ELSE IF arg.value = TextVisit
         THEN << "v", "i", "s", "i", "t", " ", "n", "o", "w" >>
    ELSE <<>>

NoUrl == {i \in DOMAIN raw_posts :
             "url" \notin DOMAIN raw_posts[i] \/ raw_posts[i].url = ""}

\* The url values of raw_posts, a missing url counted as ""
RawUrls ==
    {IF "url" \in DOMAIN raw_posts[i] THEN raw_posts[i].url ELSE "" :
        i \in DOMAIN raw_posts}

\* C21: when the Normalizer has ended its writes without a fault, the raw
\* documents whose url is missing or empty have exactly one document in
\* preprocessed_posts, under url "", with the author, date, title and
\* content of the last of them in scan order, and preprocessed_posts has as
\* many documents as raw_posts has distinct url values, a missing url
\* counted as "".
C21_MissingUrlsShareOneKey ==
    (NormalizerLoopDone /\ clean)
      => /\ Len(preprocessed_posts) = Cardinality(RawUrls)
         /\ NoUrl = {} => Matches(preprocessed_posts, "") = {}
         /\ NoUrl # {}
              => /\ Cardinality(Matches(preprocessed_posts, "")) = 1
                 /\ LET last == CHOOSE i \in NoUrl : \A j \in NoUrl : j <= i
                        raw == raw_posts[last]
                        d == preprocessed_posts[FirstMatch(preprocessed_posts, "")]
                    IN /\ d.author = raw.author
                       /\ d.date = raw.date
                       /\ d.title = preprocess_text(Get(raw, "title", <<>>))
                       /\ d.content = preprocess_text(raw.content)

\* C21 witness: the raw document without url (author bob) and the one with
\* url "" (author carol) were both scanned and written without a fault;
\* preprocessed_posts holds two documents, the one under "" being carol's.
C21_Witness ==
    /\ NormalizerLoopDone /\ clean /\ faults = 0
    /\ Len(raw_posts) = 3
    /\ Cardinality(NoUrl) = 2
    /\ Len(preprocessed_posts) = 2
    /\ \E i \in DOMAIN preprocessed_posts :
          /\ preprocessed_posts[i].url = ""
          /\ preprocessed_posts[i].author = "carol"
          /\ preprocessed_posts[i].title = TestHtml
          /\ preprocessed_posts[i].content = <<>>

\* The raw documents the Normalizer has scanned
Scanned ==
    IF stage = "normalize" /\ pc = "scan" THEN cur - 1
    ELSE IF stage = "normalize" /\ pc = "save" THEN Len(raw_posts)
    ELSE 0

\* C22: while the Normalizer scans and saves, processed_docs has one record
\* per raw document scanned, in scan order, each with exactly the fields
\* title, content, author, date, url: title and content the cleaned raw
\* fields (a missing one cleaned as the empty text), author the raw author
\* or "unknown", date and url the raw values; and the wrapper returns the
\* number of raw documents.
C22_OneRecordPerRawDocument ==
    /\ (stage = "normalize" /\ pc \in {"scan", "save"})
          => /\ Len(processed_docs) = Scanned
             /\ \A i \in 1..Scanned :
                   LET raw == raw_posts[i]
                       rec == processed_docs[i]
                   IN /\ DOMAIN rec
                            = {"title", "content", "author", "date", "url"}
                      /\ rec.title
                            = (IF "title" \in DOMAIN raw
                               THEN preprocess_text(raw.title)
                               ELSE preprocess_text(<<>>))
                      /\ rec.content
                            = (IF "content" \in DOMAIN raw
                               THEN preprocess_text(raw.content)
                               ELSE preprocess_text(<<>>))
                      /\ rec.author
                            = (IF "author" \in DOMAIN raw THEN raw.author
                               ELSE "unknown")
                      /\ "date" \in DOMAIN raw => rec.date = raw.date
                      /\ "url" \in DOMAIN raw => rec.url = raw.url
                      /\ raw.content = TextBad => rec.content = BadStuff
                      /\ "title" \notin DOMAIN raw => rec.title = <<>>
    /\ ("normalize" \in returned /\ "normalize" \notin caught)
          => result.normalize = Len(raw_posts)

\* C22 witness: three raw documents were scanned; the second record has the
\* author "unknown" of a raw document without author, the third the empty
\* title of a raw document without title.
C22_Witness ==
    /\ stage = "normalize" /\ pc = "save" /\ cur = 1
    /\ Len(raw_posts) = 3
    /\ Len(processed_docs) = 3
    /\ processed_docs[1].title = TestHtml
    /\ processed_docs[2].author = "unknown"
    /\ "author" \notin DOMAIN raw_posts[2]
    /\ processed_docs[3].title = <<>>
    /\ "title" \notin DOMAIN raw_posts[3]

\* e carries the title, content, author and date of d under the url of d,
\* and has no other field than those of d, language, sentiment, polarity
\* and enriched_at
CarriedForward(d, e) ==
    /\ e.url = d.url
    /\ e.title = d.title /\ e.content = d.content
    /\ e.author = d.author /\ e.date = d.date
    /\ DOMAIN e \ DOMAIN d
         = {"language", "sentiment", "polarity", "enriched_at"}
    /\ DOMAIN d \subseteq DOMAIN e

\* C23: no step of the Enricher changes preprocessed_posts; a step whose
\* write succeeds leaves in enriched_posts exactly one document under the
\* url of the preprocessed document read, with its title, content, author
\* and date unchanged and only language, sentiment, polarity and
\* enriched_at added; and a run that ends without a fault has left such a
\* document for every preprocessed document.
C23_EnricherCarriesFields ==
    [][ /\ stage = "enrich" => preprocessed_posts' = preprocessed_posts
        /\ (EnrDoc /\ stage' = "enrich" /\ enriched_posts' # enriched_posts)
              => LET d == preprocessed_posts[cur]
                 IN /\ Cardinality(Matches(enriched_posts', d.url)) = 1
                    /\ CarriedForward(d,
                          enriched_posts'[FirstMatch(enriched_posts', d.url)])
        /\ (EnricherLoopDone /\ clean /\ EnrReturn)
              => \A i \in DOMAIN preprocessed_posts :
                    \E j \in DOMAIN enriched_posts :
                       CarriedForward(preprocessed_posts[i], enriched_posts[j])
      ]_vars

\* C23 witness: the Enricher has written the enriched document of url "u1";
\* it has the author, date, title and content of the preprocessed document
\* and the four added fields.
C23_Witness ==
    /\ stage = "enrich" /\ pc = "loop" /\ cur = 2
    /\ call.stage = "enrich" /\ call.written /\ call.url = "u1"
    /\ preprocessed_posts[1].url = "u1"
    /\ preprocessed_posts[1].author = "alice"
    /\ enriched_posts[1].url = "u1"
    /\ enriched_posts[1].author = "alice"
    /\ enriched_posts[1].date = "d1"
    /\ enriched_posts[1].title = TestHtml
    /\ enriched_posts[1].content = BadStuff
    /\ DOMAIN enriched_posts[1]
         = {"title", "content", "author", "date", "url", "language",
            "sentiment", "polarity", "enriched_at"}

\* The stages that open a connection to the document store
StoreStages == {"normalize", "enrich", "publish"}

\* C26 as stated: for every stage whose wrapper has returned in this run,
\* normally or after a caught fault, the stage has created exactly one
\* connection and has closed it.
C26_ConnectionClosedOnReturn ==
    \A s \in returned \cap StoreStages :
        conns[s].opened = 1 /\ conns[s].closed = 1

\* C27: while the Normalizer scans and transforms, it has issued no write
\* and preprocessed_posts is as it was when the run started; the first
\* write is issued only when every raw document has been read and
\* transformed; and a run whose Normalizer ended on a fault, which is a fault
\* of the constructor or of the scan, has left preprocessed_posts as it was.
C27_ScanBeforeFirstWrite ==
    /\ (stage = "normalize" /\ pc \in {"init", "scan"})
          => preprocessed_posts = atStart[1] /\ attempts = 0
    /\ (stage = "normalize" /\ pc = "save")
          => Len(processed_docs) = Len(raw_posts)
    /\ (stage # "idle" /\ "normalize" \in caught)
          => preprocessed_posts = atStart[1]

\* C27 witness: in a second run the Normalizer has read and transformed two
\* of three raw documents and preprocessed_posts is still what the first
\* run left.
C27_Witness ==
    /\ stage = "normalize" /\ pc = "scan" /\ cur = 3
    /\ runs = 2
    /\ Len(raw_posts) = 3
    /\ Len(processed_docs) = 2
    /\ Len(preprocessed_posts) = 3
    /\ preprocessed_posts = atStart[1]

\* The documents of a sequence of batches, in order
RECURSIVE Flatten(_)
Flatten(bs) == IF bs = <<>> THEN <<>> ELSE Head(bs) \o Flatten(Tail(bs))

\* C28: every batch the Publisher hands over inside its loop has exactly
\* BatchSize actions (500 in the code) and none is empty; when the run
\* returns, the batches handed over, in order, hold the documents of
\* enriched_posts in scan order, each once; every batch but the last has
\* exactly BatchSize actions, the last between 1 and BatchSize, and no batch
\* was handed over when enriched_posts is empty.
C28_BatchesPartitionTheScan ==
    [][ /\ (stage = "publish" /\ pc = "loop")
             => /\ \A k \in DOMAIN batches : Len(batches[k]) = BatchSize
                /\ Flatten(batches) \o actions
                     = [i \in 1..(cur - 1) |->
                           transform_document(enriched_posts[i])]
        /\ (PublisherLoopDone /\ PubReturn)
             => /\ Flatten(batches')
                     = [i \in DOMAIN enriched_posts |->
                           transform_document(enriched_posts[i])]
                /\ \A k \in DOMAIN batches' :
                      /\ Len(batches'[k]) >= 1
                      /\ Len(batches'[k]) <= BatchSize
                      /\ k < Len(batches') => Len(batches'[k]) = BatchSize
                /\ enriched_posts = <<>> => batches' = <<>> ]_vars

\* C28 witness: a Publisher run over three enriched documents has returned
\* after handing over a batch of two and then a batch of one.
C28_Witness ==
    /\ stage = "complete" /\ result.publish = "True"
    /\ Len(enriched_posts) = 3
    /\ Len(batches) = 2
    /\ Len(batches[1]) = BatchSize
    /\ Len(batches[2]) = 1
    /\ batches[2][1].url = enriched_posts[3].url

\* The url values of a stored collection
UrlsOf(coll) == {coll[i].url : i \in DOMAIN coll}

\* C29: preprocessed_posts and enriched_posts being empty at the start,
\* in every reachable state every url of enriched_posts is a url of
\* preprocessed_posts and every url of preprocessed_posts is the url of a
\* raw post, a missing url counted as ""; and when a whole pipeline run has
\* ended and no fault ever occurred, the three sets are equal.
C29_UrlSetsNested ==
    /\ UrlsOf(enriched_posts) \subseteq UrlsOf(preprocessed_posts)
    /\ UrlsOf(preprocessed_posts) \subseteq RawUrls
    /\ (stage = "complete" /\ faults = 0)
          => /\ UrlsOf(preprocessed_posts) = RawUrls
             /\ UrlsOf(enriched_posts) = RawUrls

\* C29 witness: a whole run without fault has ended over three raw
\* documents, one of them without url; the three url sets are {"u1", "u2",
\* ""}.
C29_Witness ==
    /\ stage = "complete" /\ faults = 0 /\ runs = 1
    /\ Len(raw_posts) = 3
    /\ \E i \in DOMAIN raw_posts : "url" \notin DOMAIN raw_posts[i]
    /\ RawUrls = {"u1", "u2", ""}
    /\ UrlsOf(preprocessed_posts) = {"u1", "u2", ""}
    /\ UrlsOf(enriched_posts) = {"u1", "u2", ""}

\* A call of TwitterScraper.scrape_keyword is in its loop
InScrapeKeyword == scraper.who = "twitter" /\ scraper.pc = "loop"

\* C30: during a call of scrape_keyword the list tweets holds, in order,
\* exactly the posts the call has inserted into raw_posts and never more
\* than limit; an iteration at a tweet that is a duplicate, whose insert
\* fails, or that comes when the list is full, adds nothing to the list; an
\* iteration at a new tweet whose insert succeeds while the list is shorter
\* than limit, whatever the number of tweets skipped before, inserts and
\* lists it; and the call returns the list as it is, at the end of the loop
\* and when a fault interrupts it.
C30_ReturnsNewlyInserted ==
    [][ /\ InScrapeKeyword
             => /\ Len(scraper.posts) <= scraper.limit
                /\ Len(scraper.posts) <= Len(raw_posts)
                /\ SubSeq(raw_posts, Len(raw_posts) - Len(scraper.posts) + 1,
                          Len(raw_posts)) = scraper.posts
                /\ \A i \in 1..(Len(raw_posts) - Len(scraper.posts)) :
                      raw_posts[i].scraped_at < scrapes
        /\ (InScrapeKeyword /\ ScrapePost)
             => IF /\ Len(scraper.posts) < scraper.limit
                   /\ ~DuplicateKey(raw_posts, indexes, CurrentPost)
                   /\ faults' = faults
                THEN /\ raw_posts' = Append(raw_posts, CurrentPost)
                     /\ scraper'.posts = Append(scraper.posts, CurrentPost)
                ELSE /\ raw_posts' = raw_posts
                     /\ scraper'.posts = scraper.posts
        /\ (InScrapeKeyword /\ (ScrapeReturn \/ ScrapeFetchFault))
             => /\ collected'.posts = scraper.posts
                /\ raw_posts' = raw_posts ]_vars

\* C30 witness: a second call of scrape_keyword with limit 1 has skipped
\* the tweet that the first call inserted and has returned the next one,
\* which it inserted.
C30_Witness ==
    /\ collected.who = "twitter"
    /\ scraper.who = "twitter" /\ scraper.pc = "ready"
    /\ scrapes = 2
    /\ Len(raw_posts) = 2
    /\ raw_posts[1].post_id = "9" /\ raw_posts[1].scraped_at = 1
    /\ raw_posts[2].post_id = "10" /\ raw_posts[2].scraped_at = 2
    /\ collected.posts = <<raw_posts[2]>>

\* C24 as stated: when two instances have each upserted a document with the
\* same url, new to the collection, at the same time, exactly one document
\* of that url exists, one instance has observed INSERTED and the other
\* UPDATED, and no write was lost to an error.
C24_ConcurrentUpsertsSerialize ==
    (/\ conc.kind = "save"
     /\ conc.pc = <<"done", "done">>
     /\ conc.doc[1].url = conc.doc[2].url)
      => /\ Cardinality(Matches(preprocessed_posts, conc.doc[1].url)) = 1
         /\ {conc.tag[1], conc.tag[2]} = {"INSERTED", "UPDATED"}

\* The index holds exactly one SearchDocument per enriched document
IndexExact ==
    /\ index_exists
    /\ Len(index_docs) = Len(enriched_posts)
    /\ \A i \in DOMAIN enriched_posts :
          index_docs[i].url = enriched_posts[i].url

\* C25: two Publisher runs of which neither took a step while the other was
\* inside its run both return True and leave exactly one SearchDocument per
\* enriched document; a run returns False, or the index is left with
\* another content, only when the two runs overlapped. (That such an
\* interleaving exists is what the witness shows.)
C25_OnlySerialPublishersAreSafe ==
    (/\ conc.kind = "publish"
     /\ conc.pc = <<"done", "done">>
     /\ ~conc.overlapped)
      => IndexExact /\ conc.ok = <<"True", "True">>

\* C25 witness: two overlapping Publisher runs over at least two enriched
\* documents have both returned True, and the index holds every document
\* twice: the second run deleted and created the index before the first
\* had loaded, and both loaded.
C25_Witness ==
    /\ conc.kind = "publish"
    /\ conc.pc = <<"done", "done">>
    /\ conc.ok = <<"True", "True">>
    /\ conc.overlapped
    /\ Len(enriched_posts) >= 2
    /\ Len(index_docs) = 2 * Len(enriched_posts)
    /\ ~IndexExact
====
